---- MODULE Spec2Model ----
(***************************************************************************)
(* A model of the kernel of rust-os-tutorial: the physical-memory interval *)
(* map and its frame allocator, the kernel's virtual-address allocator,    *)
(* the syscall handlers that touch user buffers, the PS/2 event streams    *)
(* with wait_until_event, and the per-CPU NMI hand-shake used on panic.    *)
(*                                                                         *)
(* Address geometry.  TLC integers are 32 bits wide, so the 64-bit address *)
(* space is scaled.  One model unit stands for 2 KiB, which keeps interval *)
(* bounds that are not frame aligned expressible.  The page-size ladder    *)
(* 4 KiB | 2 MiB | 1 GiB keeps its nesting, with a ratio of 4 per level    *)
(* instead of 512.  The canonical higher half, the top 512 GiB the kernel  *)
(* image lives in and the HHDM offset keep their order and alignment.      *)
(* Arithmetic is done on unbounded integers and the properties state that  *)
(* no result leaves the address space.                                     *)
(***************************************************************************)
EXTENDS Integers, Sequences, FiniteSets, TLC

VARIABLES
    \* ---- physical memory (memory.rs, memory/physical_memory.rs)
    memory_map,     \* the bootloader's memory map: a sequence of entries
    map,            \* PhysicalMemory.map: a set of [start, end, type], ordered by start
    returned,       \* every frame allocate_frame_with_type returned, in call order
    epoch,          \* how many times remove_user_mode_memory ran
    phys_ops,       \* operations done on the physical map
    \* ---- kernel virtual memory (memory/virtual_memory.rs)
    set,            \* VirtualMemory.set: a set of [start, end]
    boot_set,       \* the value of VirtualMemory.set when boot finished
    allocated,      \* the AllocatedPages handles that are alive
    freed,          \* the ranges unmap_and_deallocate gave back (history)
    virt_panic,     \* an unwrap() or panic!() of virtual_memory.rs fired
    virt_ops,       \* operations done on the virtual set
    \* ---- the user task (task.rs, syscall_handlers/, ps2_interrupt_handler.rs)
    mapped_virtual_memory,  \* Task.mapped_virtual_memory: a set of [start, end, write, execute]
    event_streams,  \* Task.event_streams: stream id -> [source, queue, pending_event]
    task_state,     \* Task.state: Running, or Waiting with its WaitingState
    user_mem,       \* the u64 words of the task's writable data
    kernel_panicked,\* a panic!(), todo!() or failed unwrap() ran in the kernel
    last,           \* the last syscall or interrupt: its inputs, outcome and pre-state
    syscalls,       \* syscalls made
    irqs,           \* PS/2 interrupts taken
    limits,         \* how many syscalls and interrupts this run may take
    \* ---- the NMI hand-shake (idt.rs, panic_handler.rs, nmi_handler_states.rs)
    cpu_pc,         \* where each CPU is: start, loaded, ready, panicking, halted
    idt_loaded,     \* the CPU executed idt.load()
    local_apic_ready,   \* the CPU's local.local_apic is initialised
    nmi_handler_states, \* NMI_HANDLER_STATES
    did_panic,      \* DID_PANIC
    panic_todo,     \* the peers the panicking CPU has still to visit, in key order
    send_to,        \* the peers whose swap returned NmiHandlerSet, NMI not sent yet
    nmi_sent,       \* the CPUs an NMI was sent to
    nmi_in_flight,  \* the CPUs an NMI was sent to and not yet delivered
    swapped_early,  \* the CPUs swapped to KernelPanicked before their own compare_exchange
    triple_fault,   \* an NMI reached a CPU that had no IDT
    panics,         \* what every call of rust_panic did (history)
    \* ---- the syscall handler table (syscall_handlers.rs)
    syscall_handlers,   \* SYSCALL_HANDLERS and the map SyscallHandlers::default() builds
    \* ---- the life of the user task (run_user_mode_program.rs,
    \*      idt/page_fault_handler.rs, syscall_handlers/syscall_alloc.rs, frame_buffer.rs, exit.rs)
    task_some,      \* TASK is Some
    stack_size,     \* Task.stack_size
    user_pages,     \* the user-accessible pages the task's page table maps
    page_tables,    \* the level 3, 2 and 1 tables of the lower half of the task's page table
    cpu_mode,       \* user: the task runs; halted: a handler ended in hlt_loop
    frame_buffer,   \* the framebuffer, and whether logger::take_frame_buffer gave it away
    proc_last,      \* the last syscall or page fault of the task: inputs, outcome, pre-state
    proc_ops,       \* syscalls and page faults taken
    \* ---- the syscall codec (common/src/syscall.rs, user_mode_program/src/syscalls.rs)
    codec,          \* the last syscall taken through the codec: value, words, decoded value
    \* ---- spinlocks and interrupt flags (every lock()/try_lock() of kernel/src)
    lock_holder,    \* each spinlock's holder: a CPU, or 0 when it is free
    cpu_ctx,        \* each CPU: its code path and position, IF, the guards it holds
    machine,        \* which CPU is the BSP, which CPU the I/O APIC sends PS/2 interrupts to
    \* ---- the kernel logger (logger.rs)
    logger_inner,   \* KernelLogger.inner: the CPU that holds the mutex, the panic messages written
    \* ---- the loader (run_user_mode_program.rs)
    loader,         \* CR3, and how run_user_mode_program ended: outcome, error, the map before
    segment_copy,   \* one segment of the ELF and the frames the loader has filled so far
    offset_mapping, \* the offset mapping of init_with_page_size: entries done, frames mapped
    cut_result      \* one call of CutRange::cut: self, cut_out and the ranges it yields

physVars == <<memory_map, map, returned, epoch, phys_ops>>
virtVars == <<set, boot_set, allocated, freed, virt_panic, virt_ops>>
taskVars == <<mapped_virtual_memory, event_streams, task_state, user_mem,
              kernel_panicked, last, syscalls, irqs, limits>>
nmiVars == <<cpu_pc, idt_loaded, local_apic_ready, nmi_handler_states, did_panic,
             panic_todo, send_to, nmi_sent, nmi_in_flight, swapped_early, triple_fault,
             panics>>
tableVars == <<syscall_handlers>>
procVars == <<task_some, stack_size, user_pages, page_tables, cpu_mode, frame_buffer,
              proc_last, proc_ops>>
codecVars == <<codec>>
lockVars == <<lock_holder, cpu_ctx, machine>>
loggerVars == <<logger_inner>>
loaderVars == <<loader>>
pureVars == <<segment_copy, offset_mapping, cut_result>>
extVars == <<codecVars, lockVars, loggerVars, loaderVars, pureVars>>
vars == <<physVars, virtVars, taskVars, nmiVars, tableVars, procVars, extVars>>
nonPhysVars == <<virtVars, taskVars, nmiVars, tableVars, procVars, extVars>>
nonVirtVars == <<physVars, taskVars, nmiVars, tableVars, procVars, extVars>>

---------------------------------------------------------------------------
(* Bounds of the model *)

\* operations on the physical map in one run
MaxPhysOps == 3
\* operations on the kernel's virtual memory in one run
MaxVirtOps == 4
\* the largest n_pages asked of allocate_contiguous_pages
MaxPages == 2

---------------------------------------------------------------------------
(* Page sizes, in model units of 2 KiB *)

Size4KiB == 2
Size2MiB == 4 * Size4KiB
Size1GiB == 4 * Size2MiB
PageSizes == {Size4KiB, Size2MiB, Size1GiB}

Min(a, b) == IF a <= b THEN a ELSE b
Max(a, b) == IF a >= b THEN a ELSE b

\* u64::next_multiple_of
NextMultipleOf(x, m) == ((x + m - 1) \div m) * m

---------------------------------------------------------------------------
(* nodit interval maps.  A map is a set of records with disjoint           *)
(* [start, end] (both inclusive); iteration is by ascending start.         *)

Overlap(s1, e1, s2, e2) == s1 <= e2 /\ s2 <= e1

\* NoditMap::overlaps
MapOverlaps(m, s, e) == \E iv \in m : Overlap(iv.start, iv.end, s, e)

\* NoditMap::cut: remove [s, e] from the map, keeping what sticks out of it
MapCut(m, s, e) ==
    {iv \in m : ~Overlap(iv.start, iv.end, s, e)}
    \cup {[iv EXCEPT !.end = s - 1] : iv \in {x \in m : Overlap(x.start, x.end, s, e) /\ x.start < s}}
    \cup {[iv EXCEPT !.start = e + 1] : iv \in {x \in m : Overlap(x.start, x.end, s, e) /\ x.end > e}}

\* NoditMap::insert_merge_touching_if_values_equal on a map that does not
\* overlap [s, e] (the callers unwrap() the overlap error)
MapInsertMergeTouchingIfValuesEqual(m, s, e, t) ==
    LET left == {iv \in m : iv.end = s - 1 /\ iv.type = t}
        right == {iv \in m : iv.start = e + 1 /\ iv.type = t}
        ns == IF left = {} THEN s ELSE (CHOOSE iv \in left : TRUE).start
        ne == IF right = {} THEN e ELSE (CHOOSE iv \in right : TRUE).end
    IN (m \ (left \cup right)) \cup {[start |-> ns, end |-> ne, type |-> t]}

\* NoditMap::insert_overwrite: cut, then insert without merging
MapInsertOverwrite(m, s, e, t) ==
    MapCut(m, s, e) \cup {[start |-> s, end |-> e, type |-> t]}

\* the addresses a map or set of intervals covers
Addrs(m) == UNION {iv.start .. iv.end : iv \in m}

---------------------------------------------------------------------------
(* Memory types (memory/physical_memory.rs) *)

KernelTypes == {"UsedByKernel(PageTables)", "UsedByKernel(GlobalAllocatorHeap)"}
UserModeTypes == {"UsedByUserMode(PageTables)", "UsedByUserMode(Elf)",
                  "UsedByUserMode(Stack)", "UsedByUserMode(Heap)"}
MemoryType == {"Usable", "UsedByLimine"} \cup KernelTypes \cup UserModeTypes

\* the types the kernel's callers pass to allocate_frame_with_type
AllocTypes == {"UsedByKernel(PageTables)"} \cup UserModeTypes

---------------------------------------------------------------------------
(* The bootloader's memory map (limine::memory_map::Entry) *)

Entry(b, l, t) == [base |-> b, length |-> l, entry_type |-> t]

\* Ascending, non-overlapping maps, each with a first USABLE entry large
\* enough for the 4 MiB heap, as init_with_page_size requires.
BootMaps == {
    \* little free memory: the heap, then room for three 4 KiB frames
    << Entry(0, 1, "RESERVED"), Entry(1, 16 + 8, "USABLE"),
       Entry(25, 3, "BOOTLOADER_RECLAIMABLE"), Entry(28, 4, "EXECUTABLE_AND_MODULES") >>,
    \* two touching USABLE entries, room for 2 MiB frames
    << Entry(2, 20, "USABLE"), Entry(22, 12, "USABLE"),
       Entry(34, 6, "ACPI_RECLAIMABLE"), Entry(40, 4, "BOOTLOADER_RECLAIMABLE"),
       Entry(44, 4, "FRAMEBUFFER") >>,
    \* room for one 1 GiB frame above the heap
    << Entry(4, 3, "BOOTLOADER_RECLAIMABLE"), Entry(8, 16, "USABLE"),
       Entry(24, 4, "EXECUTABLE_AND_MODULES"), Entry(30, 70, "USABLE") >>
}

global_allocator_size == 2 * Size2MiB

\* memory.rs:59-66: the base of the first USABLE entry that can hold the heap
GlobalAllocatorPhysicalStart(mm) ==
    LET i == CHOOSE i \in 1..Len(mm) :
                /\ mm[i].entry_type = "USABLE" /\ mm[i].length >= global_allocator_size
                /\ \A j \in 1..(i - 1) :
                      ~(mm[j].entry_type = "USABLE" /\ mm[j].length >= global_allocator_size)
    IN mm[i].base

\* memory.rs:88-95
ShouldInsert(entry_type) ==
    CASE entry_type = "USABLE" -> "Usable"
      [] entry_type = "BOOTLOADER_RECLAIMABLE" -> "UsedByLimine"
      [] OTHER -> "None"

RECURSIVE InsertEntries(_, _, _)
\* memory.rs:87-105: the loop that inserts the entries the kernel tracks
InsertEntries(mm, i, m) ==
    IF i > Len(mm) THEN m
    ELSE LET t == ShouldInsert(mm[i].entry_type)
         IN InsertEntries(mm, i + 1,
                IF t = "None" THEN m
                ELSE MapInsertMergeTouchingIfValuesEqual(
                        m, mm[i].base, mm[i].base + mm[i].length - 1, t))

---------------------------------------------------------------------------
(* PhysicalMemory (memory/physical_memory.rs) *)

\* the intervals in which a frame of size S fits (lines 41-53)
FrameFits(iv, S) ==
    /\ iv.type = "Usable"
    /\ NextMultipleOf(iv.start, S) + (S - 1) <= iv.end

NoFrame == -1

\* a mutant of FindAlignedStart: the last interval that fits is taken
FindAlignedStart_Last(m, S) ==
    LET fits == {iv \in m : FrameFits(iv, S)}
    IN IF fits = {} THEN NoFrame
       ELSE LET last_fit == CHOOSE iv \in fits : \A o \in fits : iv.start >= o.start
            IN NextMultipleOf(last_fit.start, S)

\* find_map over map.iter(): the aligned start in the first interval that fits
FindAlignedStart(m, S) ==
    LET fits == {iv \in m : FrameFits(iv, S)}
    IN IF fits = {} THEN NoFrame
       ELSE LET first == CHOOSE iv \in fits : \A o \in fits : iv.start <= o.start
            IN NextMultipleOf(first.start, S)

\* a mutant of Retag: the frame is cut out and never inserted again
Retag_CutOnly(m, s, e, t) == MapCut(m, s, e)

\* lines 54-58: cut the frame out and insert it with its new type
Retag(m, s, e, t) == MapInsertMergeTouchingIfValuesEqual(MapCut(m, s, e), s, e, t)

\* a mutant of allocate_frame_with_type: the frame is returned and the map
\* keeps calling it Usable
allocate_frame_with_type_NoRetag(m, S, t) ==
    [frame |-> FindAlignedStart(m, S), map |-> m]

\* allocate_frame_with_type: the frame's start (or NoFrame) and the new map
allocate_frame_with_type(m, S, t) ==
    LET aligned_start == FindAlignedStart(m, S)
    IN IF aligned_start = NoFrame
       THEN [frame |-> NoFrame, map |-> m]
       ELSE [frame |-> aligned_start,
             map |-> Retag(m, aligned_start, aligned_start + (S - 1), t)]

RECURSIVE RetagAll(_, _)
\* lines 89-94: the loop over intervals_to_remove
RetagAll(m, todo) ==
    IF todo = {} THEN m
    ELSE LET iv == CHOOSE iv \in todo : \A o \in todo : iv.start <= o.start
         IN RetagAll(Retag(m, iv.start, iv.end, "Usable"), todo \ {iv})

\* a mutant of remove_user_mode_memory: each interval gets its new tag in
\* place and is not merged with its neighbours
remove_user_mode_memory_InPlace(m) ==
    {IF iv.type \in UserModeTypes THEN [iv EXCEPT !.type = "Usable"] ELSE iv : iv \in m}

\* remove_user_mode_memory
remove_user_mode_memory(m) ==
    RetagAll(m, {iv \in m : iv.type \in UserModeTypes})

\* memory.rs:83-118: the physical map when init_with_page_size has built it,
\* tracked the heap and allocated the frame of the new level 4 page table
InitialPhysicalMap(mm) ==
    LET start == GlobalAllocatorPhysicalStart(mm)
        tracked == MapInsertOverwrite(InsertEntries(mm, 1, {}), start,
                       start + (global_allocator_size - 1),
                       "UsedByKernel(GlobalAllocatorHeap)")
    IN allocate_frame_with_type(tracked, Size4KiB, "UsedByKernel(PageTables)").map

---------------------------------------------------------------------------
(* Specification of the physical memory map *)

VirtIdle ==
    /\ set = {} /\ boot_set = {} /\ allocated = {} /\ freed = {}
    /\ virt_panic = FALSE /\ virt_ops = 0

\* TaskState::Running, in the shape of TaskState::Waiting(WaitingState)
Running ==
    [kind |-> "Running", events |-> << >>, saved_regs |-> "none",
     events_slice |-> [pointer |-> 0, len |-> 0]]

\* the record of the last syscall or interrupt, before there was one
NoOperation ==
    [op |-> "none", outcome |-> "none", output |-> 0, id |-> 0, source |-> "none",
     data |-> 0, pointer |-> 0, len |-> 0, range |-> {}, needs_write |-> FALSE, access |-> {}, bytes |-> << >>,
     regs |-> "none", pre_streams |-> << >>, pre_mem |-> << >>, pre_state |-> Running]

\* the history of rust_panic before any panic: the CPUs whose compare_exchange
\* on DID_PANIC succeeded and failed, in order, the CPUs that swapped a peer's
\* state, sent an NMI and logged the panic message
NoPanics ==
    [won |-> << >>, lost |-> << >>, swapped |-> {}, sent |-> {}, logged |-> << >>]

\* no CPU was started
NmiIdle ==
    /\ cpu_pc = << >> /\ idt_loaded = << >> /\ local_apic_ready = << >>
    /\ nmi_handler_states = << >> /\ did_panic = FALSE /\ panic_todo = << >>
    /\ send_to = {} /\ nmi_sent = {} /\ nmi_in_flight = {} /\ swapped_early = {}
    /\ triple_fault = FALSE /\ panics = NoPanics

\* SyscallHandlers::default() has not run
\* no Exists syscall was made yet
NoExists == [called |-> FALSE, id |-> 0, output |-> FALSE]

TableIdle == syscall_handlers = [handlers |-> << >>, map |-> << >>, next |-> 1,
                                 panicked |-> FALSE, exists |-> NoExists]

\* the record of the task's last syscall or page fault, before there was one
\* no framebuffer: len is pitch * height, taken says that the logger's display
\* was taken from it, held that the user program took the framebuffer and has
\* not released it since
NoFrameBuffer == [len |-> 0, taken |-> FALSE, held |-> FALSE]

NoProcOperation ==
    [op |-> "none", outcome |-> "none", result |-> "none", len |-> 0, align |-> 0,
     addr |-> 0, ptr |-> 0, out_len |-> 0, page_size |-> 0, overflowed |-> FALSE,
     pre_mapped |-> {}, pre_pages |-> {}, pre_tables |-> {}, pre_stack_size |-> 0,
     pre_map |-> {}, pre_frame_buffer |-> NoFrameBuffer]

\* run_user_mode_program has not run
ProcIdle ==
    /\ task_some = FALSE /\ stack_size = 0 /\ user_pages = {} /\ page_tables = {}
    /\ cpu_mode = "halted" /\ frame_buffer = NoFrameBuffer
    /\ proc_last = NoProcOperation /\ proc_ops = 0

\* no syscall went through the codec yet
NoCodec ==
    [dir |-> "none", syscall |-> 0, variant |-> 0, fields |-> << >>, panicked |-> FALSE,
     words |-> << >>, id |-> 0, decoded |-> [ok |-> FALSE, variant |-> 0, fields |-> << >>]]

CodecIdle == codec = NoCodec

\* a CPU that runs no kernel path: halted in hlt_loop with interrupts off
NoContext ==
    [path |-> "hlt", pc |-> 0, rflags_if |-> FALSE, held |-> << >>,
     interrupted |-> [path |-> "none", pc |-> 0],
     failed |-> [path |-> "none", lock |-> "none"]]

LockIdle ==
    /\ lock_holder = << >>
    /\ cpu_ctx = << >>
    /\ machine = [bsp |-> 0, irq_dest |-> 0]

\* nobody logs
NoLogger == [holder |-> 0, written |-> << >>]

LoggerIdle == logger_inner = NoLogger

\* run_user_mode_program was not called: CR3 holds the kernel's table
NoLoader == [cr3 |-> "kernel", outcome |-> "none", error |-> "none", pre_map |-> {}]

LoaderIdle == loader = NoLoader

\* no segment is being copied
NoSegmentCopy ==
    [p_vaddr |-> 0, filesz |-> 0, memsz |-> 0, frames |-> << >>, panicked |-> FALSE]

\* init_with_page_size has not reached its loop
NoOffsetMapping ==
    [size |-> 0, done |-> 0, last_mapped_address |-> -1, calls |-> << >>,
     panicked |-> FALSE]

\* cut was not called
\* start..=end
RangeInclusive(start, end) == [start |-> start, end |-> end]
NoCut == [self |-> RangeInclusive(0, 0), cut_out |-> RangeInclusive(0, 0), result |-> << >>,
          overflowed |-> FALSE, panicked |-> FALSE, done |-> FALSE]

PureIdle ==
    /\ segment_copy = NoSegmentCopy
    /\ offset_mapping = NoOffsetMapping
    /\ cut_result = NoCut

ExtIdle == CodecIdle /\ LockIdle /\ LoggerIdle /\ LoaderIdle /\ PureIdle

\* no user task is loaded
TaskIdle ==
    /\ mapped_virtual_memory = {} /\ event_streams = << >> /\ task_state = Running
    /\ user_mem = << >> /\ kernel_panicked = FALSE /\ last = NoOperation
    /\ syscalls = 0 /\ irqs = 0 /\ limits = [syscalls |-> 0, irqs |-> 0]

InitPhys ==
    /\ memory_map \in BootMaps
    /\ map = InitialPhysicalMap(memory_map)
    /\ returned = << >>
    /\ epoch = 0
    /\ phys_ops = 0
    /\ VirtIdle
    /\ TaskIdle
    /\ NmiIdle
    /\ TableIdle
    /\ ProcIdle
    /\ ExtIdle

AllocateFrame(S, t) ==
    /\ phys_ops < MaxPhysOps
    /\ LET r == allocate_frame_with_type(map, S, t)
       IN /\ map' = r.map
          /\ returned' = IF r.frame = NoFrame THEN returned
                         ELSE Append(returned, [start |-> r.frame, size |-> S,
                                                type |-> t, epoch |-> epoch])
    /\ phys_ops' = phys_ops + 1
    /\ UNCHANGED <<memory_map, epoch, nonPhysVars>>

RemoveUserModeMemory ==
    /\ phys_ops < MaxPhysOps
    /\ map' = remove_user_mode_memory(map)
    /\ epoch' = epoch + 1
    /\ phys_ops' = phys_ops + 1
    /\ UNCHANGED <<memory_map, returned, nonPhysVars>>

NextPhys ==
    \/ \E S \in PageSizes, t \in AllocTypes : AllocateFrame(S, t)
    \/ RemoveUserModeMemory

SpecPhys == InitPhys /\ [][NextPhys]_vars

---------------------------------------------------------------------------
(* The kernel's virtual address space, in model units *)

\* the 2^64 bytes of the address space
AddressSpaceSize == 16 * Size1GiB
AddrMax == AddressSpaceSize - 1
\* 0xffff800000000000, the first address of the higher half
HigherHalfStart == AddressSpaceSize \div 2
\* 0xFFFFFF8000000000, the start of the top 512 GiB
KernelTopStart == AddressSpaceSize - 2 * Size1GiB
\* the HHDM offset Limine reports
hhdm_offset == HigherHalfStart

OffsetMapped == {"USABLE", "BOOTLOADER_RECLAIMABLE", "EXECUTABLE_AND_MODULES", "FRAMEBUFFER"}

(* nodit interval sets: sets of [start, end] *)

Iv(s, e) == [start |-> s, end |-> e]

\* NoditSet::cut
SetCut(st, s, e) ==
    {iv \in st : ~Overlap(iv.start, iv.end, s, e)}
    \cup {Iv(iv.start, s - 1) : iv \in {x \in st : Overlap(x.start, x.end, s, e) /\ x.start < s}}
    \cup {Iv(e + 1, iv.end) : iv \in {x \in st : Overlap(x.start, x.end, s, e) /\ x.end > e}}

\* NoditSet::insert_merge_touching_or_overlapping
SetInsertMergeTouchingOrOverlapping(st, s, e) ==
    LET near == {iv \in st : Overlap(iv.start, iv.end, s - 1, e + 1)}
        ns == IF near = {} THEN s
              ELSE Min(s, (CHOOSE iv \in near : \A o \in near : iv.start <= o.start).start)
        ne == IF near = {} THEN e
              ELSE Max(e, (CHOOSE iv \in near : \A o \in near : iv.end >= o.end).end)
    IN (st \ near) \cup {Iv(ns, ne)}

\* NoditSet::insert_merge_touching fails when [s, e] overlaps the set
SetOverlaps(st, s, e) == \E iv \in st : Overlap(iv.start, iv.end, s, e)

\* NoditSet::insert_merge_touching on a set that does not overlap [s, e]
SetInsertMergeTouching(st, s, e) ==
    LET left == {iv \in st : iv.end = s - 1}
        right == {iv \in st : iv.start = e + 1}
        ns == IF left = {} THEN s ELSE (CHOOSE iv \in left : TRUE).start
        ne == IF right = {} THEN e ELSE (CHOOSE iv \in right : TRUE).end
    IN (st \ (left \cup right)) \cup {Iv(ns, ne)}

\* NoditSet::gaps_trimmed(iu(lo)): the maximal uncovered intervals of [lo, AddrMax]
GapsTrimmed(st, lo) ==
    LET starts == {lo} \cup {iv.end + 1 : iv \in st}
        free(a) == a >= lo /\ a <= AddrMax /\ ~SetOverlaps(st, a, a)
        gapEnd(a) == LET above == {iv.start : iv \in {x \in st : x.start > a}}
                     IN IF above = {} THEN AddrMax
                        ELSE (CHOOSE x \in above : \A y \in above : x <= y) - 1
    IN {Iv(a, gapEnd(a)) : a \in {x \in starts : free(x)}}

RECURSIVE InsertOffsetMapped(_, _, _, _)
\* memory.rs:190-205: the offset-mapped regions, rounded to the huge page size S
InsertOffsetMapped(mm, i, S, st) ==
    IF i > Len(mm) THEN st
    ELSE IF mm[i].entry_type \in OffsetMapped
         THEN LET start == hhdm_offset + (mm[i].base \div S) * S
                  end == hhdm_offset + ((mm[i].base + (mm[i].length - 1)) \div S) * S + (S - 1)
              IN InsertOffsetMapped(mm, i + 1, S,
                     SetInsertMergeTouchingOrOverlapping(st, start, end))
         ELSE InsertOffsetMapped(mm, i + 1, S, st)

\* memory.rs:184-209: VirtualMemory.set at the end of init_with_page_size::<S>
InitialVirtualSet(mm, S) ==
    SetInsertMergeTouching(InsertOffsetMapped(mm, 1, S, {}), KernelTopStart, AddrMax)

NoRange == << >>

\* virtual_memory.rs:28-39: the range in the first gap in which n_pages pages
\* of size S fit
FindRange(st, S, n_pages) ==
    LET fit(gap) == NextMultipleOf(gap.start, S) + (n_pages * S - 1) <= gap.end
        fits == {gap \in GapsTrimmed(st, HigherHalfStart) : fit(gap)}
    IN IF fits = {} THEN NoRange
       ELSE LET gap == CHOOSE g \in fits : \A o \in fits : g.start <= o.start
                aligned_start == NextMultipleOf(gap.start, S)
            IN Iv(aligned_start, aligned_start + (n_pages * S - 1))

\* a mutant of allocate_contiguous_pages: the range is returned and never
\* inserted into the set
allocate_contiguous_pages_NoInsert(st, S, n_pages) ==
    [range |-> FindRange(st, S, n_pages), set |-> st]

\* VirtualMemory::allocate_contiguous_pages: the range (or NoRange) and the new set
allocate_contiguous_pages(st, S, n_pages) ==
    LET range == FindRange(st, S, n_pages)
    IN IF range = NoRange
       THEN [range |-> NoRange, set |-> st]
       ELSE [range |-> range, set |-> SetInsertMergeTouching(st, range.start, range.end)]

\* the pages of an AllocatedPages handle, by start address
PagesOf(h) == {h.start + k * h.size : k \in 0..((h.end - h.start + 1) \div h.size - 1)}

---------------------------------------------------------------------------
(* Specification of the kernel's virtual memory *)

PhysIdle ==
    /\ map = {} /\ returned = << >> /\ epoch = 0 /\ phys_ops = 0

InitVirt ==
    /\ memory_map \in BootMaps
    /\ \E S \in {Size2MiB, Size1GiB} : set = InitialVirtualSet(memory_map, S)
    /\ boot_set = set
    /\ allocated = {}
    /\ freed = {}
    /\ virt_panic = FALSE
    /\ virt_ops = 0
    /\ PhysIdle
    /\ TaskIdle
    /\ NmiIdle
    /\ TableIdle
    /\ ProcIdle
    /\ ExtIdle

AllocateContiguousPages(S, n_pages) ==
    /\ ~virt_panic /\ virt_ops < MaxVirtOps
    /\ LET r == allocate_contiguous_pages(set, S, n_pages)
       IN /\ set' = r.set
          /\ allocated' = IF r.range = NoRange THEN allocated
                          ELSE allocated \cup {[id |-> virt_ops, start |-> r.range.start,
                                                end |-> r.range.end, size |-> S,
                                                mapped |-> {}]}
    /\ virt_ops' = virt_ops + 1
    /\ UNCHANGED <<boot_set, freed, virt_panic, nonVirtVars>>

\* AllocatedPages::map_to: a page outside the handle's range, or one that is
\* mapped already, panics
MapTo(h, page) ==
    /\ ~virt_panic /\ virt_ops < MaxVirtOps
    /\ h \in allocated
    /\ IF page \in PagesOf(h) /\ page \notin h.mapped
       THEN /\ allocated' = (allocated \ {h}) \cup {[h EXCEPT !.mapped = @ \cup {page}]}
            /\ UNCHANGED virt_panic
       ELSE /\ virt_panic' = TRUE
            /\ UNCHANGED allocated
    /\ virt_ops' = virt_ops + 1
    /\ UNCHANGED <<set, boot_set, freed, nonVirtVars>>

\* AllocatedPages::unmap_and_deallocate: unmap(page).unwrap() panics on a
\* page that was never mapped; otherwise the range is cut out of the set
UnmapAndDeallocate(h) ==
    /\ ~virt_panic /\ virt_ops < MaxVirtOps
    /\ h \in allocated
    /\ IF h.mapped = PagesOf(h)
       THEN /\ set' = SetCut(set, h.start, h.end)
            /\ allocated' = allocated \ {h}
            /\ freed' = freed \cup {Iv(h.start, h.end)}
            /\ UNCHANGED virt_panic
       ELSE /\ virt_panic' = TRUE
            /\ UNCHANGED <<set, allocated, freed>>
    /\ virt_ops' = virt_ops + 1
    /\ UNCHANGED <<boot_set, nonVirtVars>>

\* the handle goes out of scope: AllocatedPages has no Drop, the range stays
\* in the set (local_apic.rs:41-56 keeps its mapping this way)
DropHandle(h) ==
    /\ ~virt_panic /\ virt_ops < MaxVirtOps
    /\ h \in allocated
    /\ allocated' = allocated \ {h}
    /\ virt_ops' = virt_ops + 1
    /\ UNCHANGED <<set, boot_set, freed, virt_panic, nonVirtVars>>

NextVirt ==
    \/ \E S \in PageSizes, n \in 1..MaxPages : AllocateContiguousPages(S, n)
    \/ \E h \in allocated : \E page \in PagesOf(h) \cup {h.end + 1} : MapTo(h, page)
    \/ \E h \in allocated : UnmapAndDeallocate(h)
    \/ \E h \in allocated : DropHandle(h)

SpecVirt == InitVirt /\ [][NextVirt]_vars

---------------------------------------------------------------------------
(* The user task.  Its addresses are byte addresses of a small user        *)
(* address space: the lower half holds a read-only executable segment, a   *)
(* writable data segment of two u64 words, and the stack; a few addresses  *)
(* stand for the higher half, which is never part of                       *)
(* Task.mapped_virtual_memory and is present in every page table.          *)

\* syscalls in one run
MaxSyscalls == 3
\* PS/2 interrupts in one run
MaxIrqs == 2
\* the largest len of a slice handed to a syscall
MaxLen == 2

\* ArrayQueue::new(64)
QUEUE_CAPACITY == 64
\* 0x07D83BFBB6EB4FA9 and 0xDD9E0D4A9409B5F2, with their order
KEYBOARD_EVENT_ID == 1
MOUSE_EVENT_ID == 2
\* a u64 that is neither
OTHER_EVENT_ID == MOUSE_EVENT_ID + 1
size_of_u64 == 8

EventStreamSource == {"Ps2Keyboard", "Ps2Mouse"}

\* the register snapshots a syscall may be entered with
SavedRegs == {"regs_a", "regs_b"}

Segment(s, e, w, x) == [start |-> s, end |-> e, write |-> w, execute |-> x]

\* Task.mapped_virtual_memory as run_user_mode_program builds it: the ELF
\* segments and the stack; the second layout has read-only data right
\* after the writable data
UserLayouts ==
    { {Segment(16, 31, FALSE, TRUE), Segment(32, 47, TRUE, FALSE),
       Segment(64, 79, TRUE, FALSE)},
      {Segment(16, 31, FALSE, TRUE), Segment(32, 47, TRUE, FALSE),
       Segment(48, 55, FALSE, FALSE), Segment(64, 79, TRUE, FALSE)} }

\* the addresses of the u64 words of the writable data segment
WordAddrs == {32, 40}
\* u64::MAX, where saturating_add stops
LastAddr == 103
\* addresses of the higher half
KernelAddrs == 96..LastAddr
\* the pointers user code passes: into the executable segment, the two data
\* words, the last data byte, the byte after the data, the higher half
Pointers == {24, 32, 40, 47, 48, 96}

\* NoditMap::overlapping
Overlapping(m, s, e) == {iv \in m : Overlap(iv.start, iv.end, s, e)}

\* NoditMap::contains_interval
ContainsInterval(m, s, e) == \A a \in s..e : \E iv \in m : iv.start <= a /\ a <= iv.end

\* the page tables the task runs on map this address
PagePresent(m, a) == a \in KernelAddrs \/ \E iv \in m : iv.start <= a /\ a <= iv.end

\* the addresses the kernel touches when it walks addrs upward: all of them,
\* or those up to the first one that page-faults
AccessedUntilFault(m, addrs) ==
    {a \in addrs : \A b \in addrs : b < a => PagePresent(m, b)}

\* user code may read, or write, this address
UserCanRead(m, a) == \E iv \in m : iv.start <= a /\ a <= iv.end
UserCanWrite(m, a) == \E iv \in m : iv.start <= a /\ a <= iv.end /\ iv.write

\* the u64 at an address; words the model does not track read as 0
MemWord(mem, a) == IF a \in DOMAIN mem THEN mem[a] ELSE 0
WriteWord(mem, a, v) == IF a \in DOMAIN mem THEN [mem EXCEPT ![a] = v] ELSE mem

\* SliceData::try_to_slice_mut::<u64>: the len words at pointer
ArrayAt(mem, pointer, len) == [i \in 1..len |-> MemWord(mem, pointer + size_of_u64 * (i - 1))]

Range(f) == {f[i] : i \in DOMAIN f}

RECURSIVE SortedSeq(_)
\* the order a BTreeMap iterates its keys in
SortedSeq(S) ==
    IF S = {} THEN << >>
    ELSE LET m == CHOOSE x \in S : \A y \in S : x <= y
         IN <<m>> \o SortedSeq(S \ {m})

\* ArrayQueue::push: Err, and the value is dropped, when the queue is full
ArrayQueuePush(q, v) == IF Len(q) < QUEUE_CAPACITY THEN Append(q, v) ELSE q

\* EventStream { source, queue: ArrayQueue::new(64), pending_event: false }
NewEventStream(source) == [source |-> source, queue |-> << >>, pending_event |-> FALSE]

\* what a handler leaves behind
Result(streams, mem, st, outcome, output, access, bytes) ==
    [streams |-> streams, mem |-> mem, state |-> st, outcome |-> outcome,
     output |-> output, access |-> access, bytes |-> bytes]

\* the outcomes in which the kernel has panicked: a todo!() where the task
\* should be terminated, a page fault taken in ring 0, any other panic
PanicOutcomes == {"Terminate", "KernelPageFault", "Panic"}

---------------------------------------------------------------------------
(* The syscall handlers that take a user buffer, and the PS/2 handler *)

\* SyscallSubscribeToKeyboardHandler (keyboard.rs:17-27): task.keyboard is
\* the stream registered under KEYBOARD_EVENT_ID
subscribe_to_keyboard(streams) ==
    IF KEYBOARD_EVENT_ID \in DOMAIN streams THEN streams
    ELSE (KEYBOARD_EVENT_ID :> NewEventStream("Ps2Keyboard")) @@ streams

\* SyscallSubscribeToMouseHandler (mouse.rs:25-43); try_init fails when no
\* PS/2 mouse answers
subscribe_to_mouse(streams, has_mouse) ==
    IF MOUSE_EVENT_ID \in DOMAIN streams \/ ~has_mouse THEN streams
    ELSE (MOUSE_EVENT_ID :> NewEventStream("Ps2Mouse")) @@ streams

\* read_event_stream.rs:23-45, keyboard.rs:45-67, mouse.rs: look the stream
\* up, check the buffer against mapped_virtual_memory, pop into the buffer
ReadQueue(streams, mem, m, id, pointer, len, range_end) ==
    IF id \notin DOMAIN streams
    THEN Result(streams, mem, Running, "Terminate", 0, {}, << >>)
    ELSE IF \E iv \in Overlapping(m, pointer, range_end) : ~iv.write
    THEN Result(streams, mem, Running, "Terminate", 0, {}, << >>)
    ELSE LET q == streams[id].queue
             n == Min(len, Len(q))
             slots == pointer..(pointer + n - 1)
             faults == \E a \in slots : ~PagePresent(m, a)
             touched == AccessedUntilFault(m, slots)
             popped == IF faults THEN Cardinality(touched) ELSE n
             written == IF faults THEN popped - 1 ELSE n
         IN Result([streams EXCEPT ![id].queue = SubSeq(q, popped + 1, Len(q))],
                   mem, Running,
                   IF faults THEN "KernelPageFault" ELSE "Return",
                   n, touched, SubSeq(q, 1, written))

\* SyscallReadEventStreamHandler: buffer.len() - 1 is computed first; for
\* len = 0 it panics in a build with overflow checks and wraps in one
\* without, where the range then runs to u64::MAX
read_event_stream(streams, mem, m, stream_id, pointer, len, overflow_checks) ==
    IF len = 0 /\ overflow_checks
    THEN Result(streams, mem, Running, "Panic", 0, {}, << >>)
    ELSE ReadQueue(streams, mem, m, stream_id, pointer, len,
                   IF len = 0 THEN LastAddr ELSE pointer + (len - 1))

\* SyscallReadKeyboardHandler and SyscallReadMouseHandler: id is the
\* device's stream
read_device(streams, mem, m, id, pointer, len) ==
    IF len > 0
    THEN ReadQueue(streams, mem, m, id, pointer, len, pointer + (len - 1))
    ELSE Result(streams, mem, Running, "Return", 0, {}, << >>)

\* SyscallLogHandler (log.rs:19-54); a level that does not decode ends in
\* the todo!() of handle_syscall (syscall_handlers.rs:84-94)
syscall_log(streams, mem, m, level_decodes, pointer, len) ==
    IF ~level_decodes THEN Result(streams, mem, Running, "Terminate", 0, {}, << >>)
    ELSE IF len = 0 THEN Result(streams, mem, Running, "Return", 0, {}, << >>)
    ELSE IF ContainsInterval(m, pointer, pointer + (len - 1))
    THEN Result(streams, mem, Running, "Return", 0, pointer..(pointer + (len - 1)), << >>)
    ELSE Result(streams, mem, Running, "Terminate", 0, {}, << >>)

\* a mutant of DeliverPending: the pending flag stays set
DeliverPending_KeepsFlag(acc, pointer, event) ==
    [acc EXCEPT !.mem = WriteWord(@, pointer + size_of_u64 * acc.pushed, event),
                !.pushed = @ + 1]

\* a variant of DeliverPending: the id is stored after the count is raised
DeliverPending_StoresAfterCount(acc, pointer, event) ==
    [acc EXCEPT !.streams[event].pending_event = FALSE,
                !.mem = WriteWord(@, pointer + size_of_u64 * (acc.pushed + 1), event),
                !.pushed = @ + 1]

\* wait_until_event.rs:48-50 and 55-57: clear the flag, store the id at
\* events[events_pushed], count it
DeliverPending(acc, pointer, event) ==
    [acc EXCEPT !.streams[event].pending_event = FALSE,
                !.mem = WriteWord(@, pointer + size_of_u64 * acc.pushed, event),
                !.pushed = @ + 1]

\* the loop of wait_until_event.rs:40-59 without its body
WaitLoop_NoDelivery(input_events, i, pointer, acc) == acc

RECURSIVE WaitLoop(_, _, _, _)
\* wait_until_event.rs:40-59: the loop over input_events
WaitLoop(input_events, i, pointer, acc) ==
    IF i > Len(input_events) THEN acc
    ELSE LET event == input_events[i]
         IN IF event \notin {KEYBOARD_EVENT_ID, MOUSE_EVENT_ID}
            THEN [acc EXCEPT !.err = TRUE]
            ELSE IF event \in DOMAIN acc.streams /\ acc.streams[event].pending_event
            THEN WaitLoop(input_events, i + 1, pointer, DeliverPending(acc, pointer, event))
            ELSE WaitLoop(input_events, i + 1, pointer, acc)

\* SyscallWaitUntilEventHandler.  ie(pointer, pointer) is an empty interval,
\* on which nodit panics; the check covers len bytes, the slice len words
wait_until_event(streams, mem, m, pointer, len, regs) ==
    IF len = 0 THEN Result(streams, mem, Running, "Panic", 0, {}, << >>)
    ELSE IF \E iv \in Overlapping(m, pointer, pointer + len - 1) : ~iv.write
    THEN Result(streams, mem, Running, "Terminate", 0, {}, << >>)
    ELSE IF pointer % size_of_u64 # 0
    THEN Result(streams, mem, Running, "Terminate", 0, {}, << >>)
    ELSE LET bytes == pointer..(pointer + size_of_u64 * len - 1)
         IN IF \E a \in bytes : ~PagePresent(m, a)
            THEN Result(streams, mem, Running, "KernelPageFault", 0,
                        AccessedUntilFault(m, bytes), << >>)
            ELSE LET input_events == ArrayAt(mem, pointer, len)
                     r == WaitLoop(input_events, 1, pointer,
                              [streams |-> streams, mem |-> mem, pushed |-> 0, err |-> FALSE])
                 IN IF r.err
                    THEN Result(r.streams, r.mem, Running, "Terminate", 0, bytes, << >>)
                    ELSE IF r.pushed > 0
                    THEN Result(r.streams, r.mem, Running, "Return", r.pushed, bytes, << >>)
                    ELSE Result(r.streams, r.mem,
                                [kind |-> "Waiting", events |-> input_events,
                                 saved_regs |-> regs,
                                 events_slice |-> [pointer |-> pointer, len |-> len]],
                                "Wait", 0, bytes, << >>)

\* ps2_interrupt_handler: push to every stream of the source; a waiting task
\* that listed one of them is resumed with the ids, in key order
ps2_interrupt_handler(streams, mem, st, ps2_source, data) ==
    LET matching == {id \in DOMAIN streams : streams[id].source = ps2_source}
        pushed == [id \in DOMAIN streams |->
                      IF id \in matching
                      THEN [streams[id] EXCEPT !.queue = ArrayQueuePush(@, data),
                                               !.pending_event = TRUE]
                      ELSE streams[id]]
    IN IF st.kind = "Running"
       THEN Result(pushed, mem, st, "RestoreInterrupted", 0, {}, << >>)
       ELSE LET pointer == st.events_slice.pointer
                events == ArrayAt(mem, pointer, st.events_slice.len)
                delivered == SortedSeq(matching \cap Range(events))
                count == Len(delivered)
                stored == [a \in DOMAIN mem |->
                              IF \E k \in 1..count : a = pointer + size_of_u64 * (k - 1)
                              THEN delivered[(a - pointer) \div size_of_u64 + 1]
                              ELSE mem[a]]
            IN IF count > 0
               THEN Result(pushed, stored, Running, "RestoreSyscall", count, {}, << >>)
               ELSE Result(pushed, mem, st, "RestoreInterrupted", 0, {}, << >>)

---------------------------------------------------------------------------
(* Specification of the user task: syscalls and PS/2 interrupts *)

\* the handlers of syscall_handlers/ that the model covers
RegisteredSyscalls ==
    {"SyscallExit", "SyscallLog", "SyscallSubscribeToKeyboard", "SyscallReadKeyboard",
     "SyscallSubscribeToMouse", "SyscallReadMouse", "SyscallReadEventStream",
     "SyscallWaitUntilEvent"}

\* the values user code stores in its event array
EventValues == {KEYBOARD_EVENT_ID, MOUSE_EVENT_ID, OTHER_EVENT_ID}

InitTaskWith(max_syscalls, max_irqs) ==
    /\ mapped_virtual_memory \in UserLayouts
    /\ event_streams = << >>
    /\ task_state = Running
    /\ user_mem = [a \in WordAddrs |-> 0]
    /\ kernel_panicked = FALSE
    /\ last = NoOperation
    /\ syscalls = 0
    /\ irqs = 0
    /\ limits = [syscalls |-> max_syscalls, irqs |-> max_irqs]
    /\ memory_map = << >>
    /\ PhysIdle
    /\ VirtIdle
    /\ NmiIdle
    /\ TableIdle
    /\ ProcIdle
    /\ ExtIdle

InitTask == InitTaskWith(MaxSyscalls, MaxIrqs)

\* user code runs (it is not waiting) and executes syscall with this id
SyscallEntry(id) ==
    /\ ~kernel_panicked
    /\ task_state.kind = "Running"
    /\ syscalls < limits.syscalls
    /\ id \in RegisteredSyscalls

\* the handler ran to its end: r is what it leaves behind
Commit(op, id, source, data, pointer, len, range, needs_write, regs, mem, r) ==
    /\ event_streams' = r.streams
    /\ user_mem' = r.mem
    /\ task_state' = r.state
    /\ kernel_panicked' = (r.outcome \in PanicOutcomes)
    /\ last' = [op |-> op, outcome |-> r.outcome, output |-> r.output, id |-> id,
                source |-> source, data |-> data, pointer |-> pointer, len |-> len,
                range |-> range,
                needs_write |-> needs_write, access |-> r.access, bytes |-> r.bytes,
                regs |-> regs, pre_streams |-> event_streams, pre_mem |-> mem,
                pre_state |-> task_state]
    /\ UNCHANGED <<mapped_virtual_memory, limits, physVars, virtVars, nmiVars,
                   tableVars, procVars, extVars>>

CommitSyscall(op, id, pointer, len, range, needs_write, regs, mem, r) ==
    /\ Commit(op, id, "none", 0, pointer, len, range, needs_write, regs, mem, r)
    /\ syscalls' = syscalls + 1
    /\ UNCHANGED irqs

\* SyscallHandlers::handle_syscall with an id that is not in the map
SyscallInvalidId ==
    /\ ~kernel_panicked /\ task_state.kind = "Running" /\ syscalls < limits.syscalls
    /\ CommitSyscall("InvalidId", 0, 0, 0, {}, FALSE, "none", user_mem,
           Result(event_streams, user_mem, Running, "Terminate", 0, {}, << >>))

\* SyscallExitHandler
SyscallExit ==
    /\ SyscallEntry("SyscallExit")
    /\ CommitSyscall("SyscallExit", 0, 0, 0, {}, FALSE, "none", user_mem,
           Result(event_streams, user_mem, Running, "Terminate", 0, {}, << >>))

SyscallLog(level_decodes, pointer, len) ==
    /\ SyscallEntry("SyscallLog")
    /\ CommitSyscall("SyscallLog", 0, pointer, len, pointer..(pointer + len - 1), FALSE, "none", user_mem,
           syscall_log(event_streams, user_mem, mapped_virtual_memory, level_decodes,
                       pointer, len))

SyscallSubscribeToKeyboard ==
    /\ SyscallEntry("SyscallSubscribeToKeyboard")
    /\ CommitSyscall("SyscallSubscribeToKeyboard", KEYBOARD_EVENT_ID, 0, 0, {}, FALSE, "none",
           user_mem,
           Result(subscribe_to_keyboard(event_streams), user_mem, Running, "Return",
                  KEYBOARD_EVENT_ID, {}, << >>))

SyscallSubscribeToMouse(has_mouse) ==
    /\ SyscallEntry("SyscallSubscribeToMouse")
    /\ LET streams == subscribe_to_mouse(event_streams, has_mouse)
       IN CommitSyscall("SyscallSubscribeToMouse", MOUSE_EVENT_ID, 0, 0, {}, FALSE, "none",
              user_mem,
              Result(streams, user_mem, Running, "Return",
                     IF MOUSE_EVENT_ID \in DOMAIN streams THEN MOUSE_EVENT_ID ELSE 0,
                     {}, << >>))

SyscallReadKeyboard(pointer, len) ==
    /\ SyscallEntry("SyscallReadKeyboard")
    /\ CommitSyscall("SyscallReadKeyboard", KEYBOARD_EVENT_ID, pointer, len,
           pointer..(pointer + len - 1),
           TRUE, "none", user_mem,
           read_device(event_streams, user_mem, mapped_virtual_memory, KEYBOARD_EVENT_ID,
                       pointer, len))

SyscallReadMouse(pointer, len) ==
    /\ SyscallEntry("SyscallReadMouse")
    /\ CommitSyscall("SyscallReadMouse", MOUSE_EVENT_ID, pointer, len,
           pointer..(pointer + len - 1),
           TRUE, "none", user_mem,
           read_device(event_streams, user_mem, mapped_virtual_memory, MOUSE_EVENT_ID,
                       pointer, len))

SyscallReadEventStream(stream_id, pointer, len, overflow_checks) ==
    /\ SyscallEntry("SyscallReadEventStream")
    /\ CommitSyscall("SyscallReadEventStream", stream_id, pointer, len,
           pointer..(pointer + len - 1),
           TRUE, "none", user_mem,
           read_event_stream(event_streams, user_mem, mapped_virtual_memory, stream_id,
                             pointer, len, overflow_checks))

\* what user code may have stored before the call: event values in the
\* words of its array, the other words as they were
StoredArrays(pointer, len) ==
    LET words == WordAddrs \cap (pointer..(pointer + size_of_u64 * len - 1))
    IN {[a \in WordAddrs |-> IF a \in words THEN vals[a] ELSE user_mem[a]] :
           vals \in [words -> EventValues]}

\* user code fills its event array, then calls wait_until_event
SyscallWaitUntilEvent(pointer, len, array, regs) ==
    /\ SyscallEntry("SyscallWaitUntilEvent")
    /\ CommitSyscall("SyscallWaitUntilEvent", 0, pointer, len,
           pointer..(pointer + size_of_u64 * len - 1), TRUE, regs, array,
           wait_until_event(event_streams, array, mapped_virtual_memory, pointer, len, regs))

\* a PS/2 interrupt: taken in user mode or in the hlt loop of a waiting
\* task, never after a panic (interrupts are off); the byte read from port
\* 0x60 is the number of the interrupt
Ps2Interrupt(ps2_source) ==
    /\ ~kernel_panicked
    /\ irqs < limits.irqs
    /\ Commit("ps2_interrupt", 0, ps2_source, irqs + 1, task_state.events_slice.pointer,
              task_state.events_slice.len, {}, FALSE,
              task_state.saved_regs, user_mem,
              ps2_interrupt_handler(event_streams, user_mem, task_state, ps2_source,
                                    irqs + 1))
    /\ irqs' = irqs + 1
    /\ UNCHANGED syscalls

NextTask ==
    \/ SyscallInvalidId
    \/ SyscallExit
    \/ \E d \in BOOLEAN, p \in Pointers, n \in 0..MaxLen : SyscallLog(d, p, n)
    \/ SyscallSubscribeToKeyboard
    \/ \E has_mouse \in BOOLEAN : SyscallSubscribeToMouse(has_mouse)
    \/ \E p \in Pointers, n \in 0..MaxLen : SyscallReadKeyboard(p, n)
    \/ \E p \in Pointers, n \in 0..MaxLen : SyscallReadMouse(p, n)
    \/ \E id \in EventValues, p \in Pointers, n \in 0..MaxLen :
          \E c \in (IF n = 0 THEN BOOLEAN ELSE {FALSE}) :
              SyscallReadEventStream(id, p, n, c)
    \/ \E p \in Pointers, n \in 0..MaxLen, regs \in SavedRegs :
          \E array \in StoredArrays(p, n) : SyscallWaitUntilEvent(p, n, array, regs)
    \/ \E ps2_source \in EventStreamSource : Ps2Interrupt(ps2_source)

SpecTask == InitTask /\ [][NextTask]_vars

---------------------------------------------------------------------------
(* Specification of a task that subscribes, reads its streams into its     *)
(* data segment and waits: wait_until_event with every pointer, len and    *)
(* array, between PS/2 interrupts of both sources                          *)

NextWait ==
    \/ SyscallSubscribeToKeyboard
    \/ \E has_mouse \in BOOLEAN : SyscallSubscribeToMouse(has_mouse)
    \/ \E id \in {KEYBOARD_EVENT_ID, MOUSE_EVENT_ID}, n \in 1..MaxLen :
          SyscallReadEventStream(id, 32, n, FALSE)
    \/ \E p \in Pointers, n \in 0..MaxLen, regs \in SavedRegs :
          \E array \in StoredArrays(p, n) : SyscallWaitUntilEvent(p, n, array, regs)
    \/ \E ps2_source \in EventStreamSource : Ps2Interrupt(ps2_source)

SpecWait == InitTask /\ [][NextWait]_vars

---------------------------------------------------------------------------
(* Specification of one keyboard stream under a burst of interrupts: more  *)
(* interrupts than the queue has room for, and reads into the data segment *)

\* PS/2 interrupts in one run of the burst
MaxQueueIrqs == 66
\* syscalls in one run of the burst
MaxQueueSyscalls == 3

InitQueue == InitTaskWith(MaxQueueSyscalls, MaxQueueIrqs)

NextQueue ==
    \/ SyscallSubscribeToKeyboard
    \/ Ps2Interrupt("Ps2Keyboard")
    \/ \E n \in 1..MaxLen : SyscallReadEventStream(KEYBOARD_EVENT_ID, 32, n, FALSE)
    \/ \E n \in 1..MaxLen : SyscallReadKeyboard(32, n)

SpecQueue == InitQueue /\ [][NextQueue]_vars

---------------------------------------------------------------------------
(* Specification of the NMI hand-shake between idt::init on every CPU and  *)
(* rust_panic on any of them                                               *)

\* CPUs of the machine, by lapic id
MaxCpus == 3
Cpus == 1..MaxCpus

InitNmi ==
    /\ cpu_pc = [c \in Cpus |-> "start"]
    /\ idt_loaded = [c \in Cpus |-> FALSE]
    /\ local_apic_ready = [c \in Cpus |-> FALSE]
    /\ nmi_handler_states = [c \in Cpus |-> "NmiHandlerNotSet"]
    /\ did_panic = FALSE
    /\ panic_todo = << >>
    /\ send_to = {}
    /\ nmi_sent = {}
    /\ nmi_in_flight = {}
    /\ swapped_early = {}
    /\ triple_fault = FALSE
    /\ panics = NoPanics
    /\ memory_map = << >>
    /\ PhysIdle
    /\ VirtIdle
    /\ TaskIdle
    /\ TableIdle
    /\ ProcIdle
    /\ ExtIdle

\* idt::init, idt.load() (idt.rs:100)
IdtLoad(c) ==
    /\ cpu_pc[c] = "start"
    /\ idt_loaded' = [idt_loaded EXCEPT ![c] = TRUE]
    /\ cpu_pc' = [cpu_pc EXCEPT ![c] = "loaded"]
    /\ UNCHANGED <<local_apic_ready, nmi_handler_states, did_panic, panic_todo, send_to,
                   nmi_sent, nmi_in_flight, swapped_early, triple_fault,
                   panics, physVars, virtVars, taskVars,
                   tableVars, procVars, extVars>>

\* idt::init, the compare_exchange NmiHandlerNotSet -> NmiHandlerSet
\* (idt.rs:103-119); on failure handle_panic_originating_on_other_cpu
CompareExchange(c) ==
    /\ cpu_pc[c] = "loaded"
    /\ IF nmi_handler_states[c] = "NmiHandlerNotSet"
       THEN /\ nmi_handler_states' = [nmi_handler_states EXCEPT ![c] = "NmiHandlerSet"]
            /\ cpu_pc' = [cpu_pc EXCEPT ![c] = "ready"]
       ELSE /\ cpu_pc' = [cpu_pc EXCEPT ![c] = "halted"]
            /\ UNCHANGED nmi_handler_states
    /\ UNCHANGED <<idt_loaded, local_apic_ready, did_panic, panic_todo, send_to, nmi_sent,
                   nmi_in_flight, swapped_early, triple_fault, panics, physVars, virtVars, taskVars,
                   tableVars, procVars, extVars>>

\* local_apic::init (local_apic.rs:61): at some point of the CPU's boot
LocalApicInit(c) ==
    /\ cpu_pc[c] \in {"start", "loaded", "ready"}
    /\ ~local_apic_ready[c]
    /\ local_apic_ready' = [local_apic_ready EXCEPT ![c] = TRUE]
    /\ UNCHANGED <<cpu_pc, idt_loaded, nmi_handler_states, did_panic, panic_todo, send_to,
                   nmi_sent, nmi_in_flight, swapped_early, triple_fault,
                   panics, physVars, virtVars, taskVars,
                   tableVars, procVars, extVars>>

\* a mutant of WinsDidPanic: a plain store, every panic takes the first arm
WinsDidPanic_Always(previous) == TRUE

\* DID_PANIC.compare_exchange(false, true) is Ok (panic_handler.rs:15-16)
WinsDidPanic(previous) == previous = FALSE

\* rust_panic up to the loop (panic_handler.rs:14-24, 40-45): the panic that
\* wins DID_PANIC visits its peers if it can take the local APIC, and logs
\* and halts at once if it cannot; every other panic halts.  A panic inside
\* rust_panic itself (cpu_pc = "panicking") abandons the loop it was in.
Panic(c, lock_free) ==
    /\ cpu_pc[c] \in {"start", "loaded", "ready", "panicking"}
    /\ did_panic' = TRUE
    /\ IF WinsDidPanic(did_panic)
       THEN IF local_apic_ready[c] /\ lock_free /\ cpu_pc[c] # "panicking"
            THEN /\ cpu_pc' = [cpu_pc EXCEPT ![c] = "panicking"]
                 /\ panic_todo' = SortedSeq(Cpus \ {c})
                 /\ panics' = [panics EXCEPT !.won = Append(@, c)]
                 /\ UNCHANGED send_to
            ELSE /\ cpu_pc' = [cpu_pc EXCEPT ![c] = "halted"]
                 /\ panics' = [panics EXCEPT !.won = Append(@, c),
                                              !.logged = Append(@, c)]
                 /\ UNCHANGED <<panic_todo, send_to>>
       ELSE /\ cpu_pc' = [cpu_pc EXCEPT ![c] = "halted"]
            /\ panics' = [panics EXCEPT !.lost = Append(@, c)]
            /\ panic_todo' = IF cpu_pc[c] = "panicking" THEN << >> ELSE panic_todo
            /\ send_to' = IF cpu_pc[c] = "panicking" THEN {} ELSE send_to
    /\ UNCHANGED <<idt_loaded, local_apic_ready, nmi_handler_states, nmi_sent,
                   nmi_in_flight, swapped_early, triple_fault, physVars, virtVars, taskVars,
                   tableVars, procVars, extVars>>

\* a mutant of ShouldSendNmi: every peer is sent an NMI
ShouldSendNmi_Always(previous) == TRUE

\* panic_handler.rs:32-34: the value the swap returned decides
ShouldSendNmi(previous) == previous = "NmiHandlerSet"

\* rust_panic, one turn of the loop: swap(KernelPanicked) on the next peer
\* (panic_handler.rs:25-34)
PanicSwap(c) ==
    /\ cpu_pc[c] = "panicking"
    /\ send_to = {}
    /\ panic_todo # << >>
    /\ LET peer == Head(panic_todo)
       IN /\ nmi_handler_states' = [nmi_handler_states EXCEPT ![peer] = "KernelPanicked"]
          /\ send_to' = IF ShouldSendNmi(nmi_handler_states[peer]) THEN {peer} ELSE {}
          /\ swapped_early' = IF cpu_pc[peer] \in {"start", "loaded"}
                              THEN swapped_early \cup {peer} ELSE swapped_early
    /\ panic_todo' = Tail(panic_todo)
    /\ panics' = [panics EXCEPT !.swapped = @ \cup {c}]
    /\ UNCHANGED <<cpu_pc, idt_loaded, local_apic_ready, did_panic, nmi_sent, nmi_in_flight,
                   triple_fault, physVars, virtVars, taskVars,
                   tableVars, procVars, extVars>>

\* rust_panic, local_apic.send_nmi (panic_handler.rs:36)
PanicSendNmi(c) ==
    /\ cpu_pc[c] = "panicking"
    /\ send_to # {}
    /\ nmi_sent' = nmi_sent \cup send_to
    /\ nmi_in_flight' = nmi_in_flight \cup send_to
    /\ send_to' = {}
    /\ panics' = [panics EXCEPT !.sent = @ \cup {c}]
    /\ UNCHANGED <<cpu_pc, idt_loaded, local_apic_ready, nmi_handler_states, did_panic,
                   panic_todo, swapped_early, triple_fault, physVars, virtVars, taskVars,
                   tableVars, procVars, extVars>>

\* rust_panic after the loop: hlt_loop (panic_handler.rs:40-41)
PanicDone(c) ==
    /\ cpu_pc[c] = "panicking"
    /\ send_to = {}
    /\ panic_todo = << >>
    /\ cpu_pc' = [cpu_pc EXCEPT ![c] = "halted"]
    /\ panics' = [panics EXCEPT !.logged = Append(@, c)]
    /\ UNCHANGED <<idt_loaded, local_apic_ready, nmi_handler_states, did_panic, panic_todo,
                   send_to, nmi_sent, nmi_in_flight, swapped_early, triple_fault,
                   physVars, virtVars, taskVars,
                   tableVars, procVars, extVars>>

\* the NMI arrives: nmi_handler halts the CPU (idt.rs:42-49); a CPU without
\* an IDT triple-faults
NmiDelivered(c) ==
    /\ c \in nmi_in_flight
    /\ nmi_in_flight' = nmi_in_flight \ {c}
    /\ IF idt_loaded[c]
       THEN /\ cpu_pc' = [cpu_pc EXCEPT ![c] = "halted"]
            /\ UNCHANGED triple_fault
       ELSE /\ triple_fault' = TRUE
            /\ UNCHANGED cpu_pc
    /\ UNCHANGED <<idt_loaded, local_apic_ready, nmi_handler_states, did_panic, panic_todo,
                   send_to, nmi_sent, swapped_early, panics, physVars, virtVars, taskVars,
                   tableVars, procVars, extVars>>

NextNmi ==
    \/ \E c \in Cpus : IdtLoad(c)
    \/ \E c \in Cpus : CompareExchange(c)
    \/ \E c \in Cpus : LocalApicInit(c)
    \/ \E c \in Cpus, lock_free \in BOOLEAN : Panic(c, lock_free)
    \/ \E c \in Cpus : PanicSwap(c)
    \/ \E c \in Cpus : PanicSendNmi(c)
    \/ \E c \in Cpus : PanicDone(c)
    \/ \E c \in Cpus : NmiDelivered(c)

SpecNmi == InitNmi /\ [][NextNmi]_vars

\* every CPU keeps executing: the steps of idt::init and of rust_panic are
\* taken once they are enabled and a sent NMI is delivered; whether and when
\* a CPU panics or initialises its local APIC is left open
NmiFairness ==
    \A c \in Cpus :
        /\ WF_vars(IdtLoad(c))
        /\ WF_vars(CompareExchange(c))
        /\ WF_vars(PanicSwap(c))
        /\ WF_vars(PanicSendNmi(c))
        /\ WF_vars(PanicDone(c))
        /\ WF_vars(NmiDelivered(c))

SpecNmiFair == InitNmi /\ [][NextNmi]_vars /\ NmiFairness

---------------------------------------------------------------------------
(* Specification of the syscall handler table: SyscallHandlers::default()  *)
(* over a list of handlers                                                 *)

\* the longest list of handlers
MaxHandlers == 4

\* the ids of common/src/syscall_*.rs, with the collision that is in the
\* source: SyscallAlloc and SyscallAlloc2 have the same ID
SyscallExistsId == 1
SyscallExitId == 2
SyscallLogId == 3
SyscallAllocId == 4
SyscallAlloc2Id == SyscallAllocId
SyscallMemInfoId == 10

Handler(name, id) == [name |-> name, id |-> id]

\* the handlers a list is drawn from (syscall_handlers.rs:97-104)
HandlerPool ==
    {Handler("SyscallExistsHandler", SyscallExistsId),
     Handler("SyscallExitHandler", SyscallExitId),
     Handler("SyscallLogHandler", SyscallLogId),
     Handler("SyscallAllocHandler", SyscallAllocId),
     Handler("SyscallAlloc2Handler", SyscallAlloc2Id)}

\* static SYSCALL_HANDLERS (syscall_handlers.rs:97-104)
SYSCALL_HANDLERS ==
    << Handler("SyscallExistsHandler", SyscallExistsId),
       Handler("SyscallExitHandler", SyscallExitId),
       Handler("SyscallLogHandler", SyscallLogId),
       Handler("SyscallMemInfoHandler", SyscallMemInfoId),
       Handler("SyscallAllocHandler", SyscallAllocId),
       Handler("SyscallAlloc2Handler", SyscallAlloc2Id) >>

\* lists of distinct handlers
HandlerLists ==
    UNION {{l \in [1..n -> HandlerPool] : \A i, j \in 1..n : i # j => l[i] # l[j]} :
              n \in 0..MaxHandlers}

\* a mutant of InsertHandler: BTreeMap::insert, the later handler replaces
\* the earlier one
InsertHandler_Overwrite(t, handler) ==
    [t EXCEPT !.map = (handler.id :> handler) @@ [id \in DOMAIN t.map \ {handler.id} |-> t.map[id]],
              !.next = @ + 1]

\* one turn of the loop (syscall_handlers.rs:113-120): map.entry(id) is
\* Vacant and takes the handler, or Occupied and the kernel panics
InsertHandler(t, handler) ==
    IF handler.id \in DOMAIN t.map
    THEN [t EXCEPT !.panicked = TRUE]
    ELSE [t EXCEPT !.map = (handler.id :> handler) @@ t.map, !.next = @ + 1]

InitTable ==
    /\ \E l \in HandlerLists \cup {SYSCALL_HANDLERS} :
          syscall_handlers = [handlers |-> l, map |-> << >>, next |-> 1, panicked |-> FALSE,
                              exists |-> NoExists]
    /\ memory_map = << >>
    /\ PhysIdle
    /\ VirtIdle
    /\ TaskIdle
    /\ NmiIdle
    /\ ProcIdle
    /\ ExtIdle

\* the loop of SyscallHandlers::default()
DefaultStep ==
    /\ ~syscall_handlers.panicked
    /\ syscall_handlers.next <= Len(syscall_handlers.handlers)
    /\ syscall_handlers' =
          InsertHandler(syscall_handlers, syscall_handlers.handlers[syscall_handlers.next])
    /\ UNCHANGED <<physVars, virtVars, taskVars, nmiVars, procVars, extVars>>

\* a mutant of handler_exists: every id is said to exist
handler_exists_Always(t, id) == TRUE

\* SyscallHelper::handler_exists: map.contains_key(id) (syscall_handlers.rs:64-66)
handler_exists(t, id) == id \in DOMAIN t.map

\* the ids user code asks about: 0, the ids of common/, an id no handler has
ExistsIds == {0, SyscallExistsId, SyscallExitId, SyscallLogId, SyscallAllocId, 5}

\* SyscallExistsHandler, on the table that default() built: the answer is
\* returned to user mode and nothing else is written
SyscallExists(id) ==
    /\ ~syscall_handlers.panicked
    /\ syscall_handlers.next > Len(syscall_handlers.handlers)
    /\ handler_exists(syscall_handlers, SyscallExistsId)
    /\ syscall_handlers' =
          [syscall_handlers EXCEPT !.exists = [called |-> TRUE, id |-> id,
                                               output |-> handler_exists(syscall_handlers, id)]]
    /\ UNCHANGED <<physVars, virtVars, taskVars, nmiVars, procVars, extVars>>

NextTable ==
    \/ DefaultStep
    \/ \E id \in ExistsIds : SyscallExists(id)

SpecTable == InitTable /\ [][NextTable]_vars

---------------------------------------------------------------------------
(* The life of the user task: loading, Alloc, TakeFrameBuffer, page faults *)
(* and Exit.  User addresses are in the model units of the kernel's        *)
(* address space; in this part mapped_virtual_memory is the NoditSet of    *)
(* run_user_mode_program.rs, a set of [start, end].                        *)

\* syscalls and page faults of the task in one run
MaxProcOps == 3

\* 0x800000000000: the end of the lower half, where the non-canonical
\* addresses begin
INITIAL_RSP == AddressSpaceSize \div 4
\* 64 * 0x400 (run_user_mode_program.rs:189): 4 KiB pages that fill a part
\* of the topmost 2 MiB page of the lower half
initial_stack_size == 2 * Size4KiB
\* type ExtendBy = Size2MiB (page_fault_handler.rs:18)
ExtendBy == Size2MiB

\* u64 arithmetic that wraps
Wrap(x) == (x + AddressSpaceSize) % AddressSpaceSize

\* VirtAddr::try_new is Ok
Canonical(a) == a < INITIAL_RSP \/ a >= HigherHalfStart

\* F at the value of e, with e computed once
With(e, F(_)) == CHOOSE y \in {F(x) : x \in {e}} : TRUE

\* Page::<S>::containing_address
ContainingPage(a, S) == (a \div S) * S

\* u64::checked_next_power_of_two() == Some(align)
IsPowerOfTwo(align) == align \in {1, 2, 4, 8, 16, 32, 64, 128, 256}

\* NoditSet::gaps_trimmed(ue(hi)): the maximal uncovered intervals of [0, hi - 1]
GapsBelow(st, hi) ==
    LET starts == {0} \cup {iv.end + 1 : iv \in st}
        free(a) == a < hi /\ ~SetOverlaps(st, a, a)
        gapEnd(a) == LET above == {iv.start : iv \in {x \in st : x.start > a}}
                     IN IF above = {} THEN hi - 1
                        ELSE Min(hi - 1, (CHOOSE x \in above : \A y \in above : x <= y) - 1)
    IN {Iv(a, gapEnd(a)) : a \in {x \in starts : free(x)}}

RECURSIVE ByStart(_)
\* the order nodit iterates intervals in
ByStart(ivs) ==
    IF ivs = {} THEN << >>
    ELSE With(CHOOSE iv \in ivs : \A o \in ivs : iv.start <= o.start,
              LAMBDA first : <<first>> \o ByStart(ivs \ {first}))

\* the start addresses of the pages of size S of [s, e], ascending
PageStarts(s, e, S) == [k \in 1..((e - s + 1) \div S) |-> s + (k - 1) * S]

(* The page table of the task.  st is [map, tables, pages, mapped, result]: *)
(* the physical map, the tables of levels 3, 2 and 1 that exist, the user  *)
(* pages mapped, Task.mapped_virtual_memory and the Result so far.         *)

\* what one table of a level spans: a level 1 table holds 4 KiB pages
TableSpan(level) ==
    CASE level = 1 -> Size2MiB
      [] level = 2 -> Size1GiB
      [] level = 3 -> 4 * Size1GiB

\* PageTableWalker::create_next_table: the table exists, or the entry is a
\* huge page, or a frame is allocated for a new table
create_next_table(st, level, page) ==
    LET base == ContainingPage(page, TableSpan(level))
    IN IF st.result # "Ok" \/ [level |-> level, base |-> base] \in st.tables THEN st
       ELSE IF \E pg \in st.pages : pg.start = base /\ pg.size = TableSpan(level)
       THEN [st EXCEPT !.result = "ParentEntryHugePage"]
       ELSE With(allocate_frame_with_type(st.map, Size4KiB, "UsedByUserMode(PageTables)"),
                 LAMBDA r :
                    IF r.frame = NoFrame
                    THEN [st EXCEPT !.result = "FrameAllocationFailed"]
                    ELSE [st EXCEPT !.map = r.map,
                                    !.tables = @ \cup {[level |-> level, base |-> base]}])

\* a mutant of EntryIsUnused: map_to overwrites whatever the entry holds
EntryIsUnused_Always(st, page, S) == TRUE

\* the entry map_to is about to write is_unused(): no page is mapped there
\* and, for a 2 MiB page, no level 1 table hangs there
EntryIsUnused(st, page, S) ==
    /\ ~\E pg \in st.pages : pg.start = page
    /\ S = Size2MiB => [level |-> 1, base |-> page] \notin st.tables

\* Mapper::map_to for a page of size S (x86_64 MappedPageTable)
map_to(st, page, S, frame, kind) ==
    With(create_next_table(st, 3, page), LAMBDA p3 :
    With(create_next_table(p3, 2, page), LAMBDA p2 :
    With(IF S = Size4KiB THEN create_next_table(p2, 1, page) ELSE p2, LAMBDA p1 :
        IF p1.result # "Ok" THEN p1
        ELSE IF ~EntryIsUnused(p1, page, S) THEN [p1 EXCEPT !.result = "PageAlreadyMapped"]
        ELSE [p1 EXCEPT !.pages = @ \cup {[start |-> page, size |-> S, frame |-> frame,
                                            kind |-> kind]}])))

RECURSIVE MapFreshPages(_, _, _, _, _)
\* the loops that allocate a frame for each page and map it
\* (run_user_mode_program.rs:137-157 and 199-219, syscall_alloc.rs:67-88)
MapFreshPages(st, pages, S, type, kind) ==
    IF pages = << >> \/ st.result # "Ok" THEN st
    ELSE With(allocate_frame_with_type(st.map, S, type), LAMBDA r :
            IF r.frame = NoFrame THEN [st EXCEPT !.result = "OutOfMemory"]
            ELSE With(map_to([st EXCEPT !.map = r.map], Head(pages), S, r.frame, kind),
                      LAMBDA next : MapFreshPages(next, Tail(pages), S, type, kind)))

\* where the bootloader put the framebuffer in physical memory
FrameBufferPhysicalStart == 104

RECURSIVE MapFrameBuffer(_, _, _)
\* frame_buffer.rs:69-86: the framebuffer's own frames, page by page
MapFrameBuffer(st, pages, i) ==
    IF i > Len(pages) \/ st.result # "Ok" THEN st
    ELSE With(map_to(st, pages[i], Size4KiB,
                     FrameBufferPhysicalStart + (i - 1) * Size4KiB, "FrameBuffer"),
              LAMBDA next : MapFrameBuffer(next, pages, i + 1))

RECURSIVE LoadSegments(_, _)
\* run_user_mode_program.rs:99-187: each loadable segment is recorded in
\* mapped_virtual_memory and mapped page by page
LoadSegments(st, segments) ==
    IF segments = << >> \/ st.result # "Ok" THEN st
    ELSE With(Head(segments), LAMBDA seg :
            IF SetOverlaps(st.mapped, seg.start, seg.end)
            THEN [st EXCEPT !.result = "OverlappingElfSegments"]
            ELSE With([st EXCEPT !.mapped = SetInsertMergeTouching(@, seg.start, seg.end)],
                      LAMBDA inserted :
                 With(MapFreshPages(inserted, PageStarts(seg.start, seg.end, Size4KiB),
                                    Size4KiB, "UsedByUserMode(Elf)", "Elf"),
                      LAMBDA next : LoadSegments(next, Tail(segments)))))

\* run_user_mode_program.rs:84-219: the level 4 frame, the segments, the stack
LoadedTask(mm, elf) ==
    With(allocate_frame_with_type(InitialPhysicalMap(mm), Size4KiB,
                                  "UsedByUserMode(PageTables)"), LAMBDA l4 :
    With([map |-> l4.map, tables |-> {}, pages |-> {}, mapped |-> {},
          result |-> IF l4.frame = NoFrame THEN "OutOfMemory" ELSE "Ok"], LAMBDA st0 :
    With(ByStart(elf), LAMBDA segments :
    With(LoadSegments(st0, segments), LAMBDA st1 :
    With(INITIAL_RSP - initial_stack_size, LAMBDA stack_start :
        IF st1.result # "Ok" THEN st1
        ELSE IF SetOverlaps(st1.mapped, stack_start, INITIAL_RSP - 1)
        THEN [st1 EXCEPT !.result = "OverlappingElfSegmentsAndStack"]
        ELSE With([st1 EXCEPT !.mapped =
                       SetInsertMergeTouching(@, stack_start, INITIAL_RSP - 1)],
                  LAMBDA inserted :
                     MapFreshPages(inserted,
                                   PageStarts(stack_start, INITIAL_RSP - 1, Size4KiB),
                                   Size4KiB, "UsedByUserMode(Stack)", "Stack")))))))

\* the memory maps the task is loaded on: one with room to spare, one that
\* the loaded task nearly fills
ProcBootMaps == {
    << Entry(4, 3, "BOOTLOADER_RECLAIMABLE"), Entry(8, 16, "USABLE"),
       Entry(24, 4, "EXECUTABLE_AND_MODULES"), Entry(30, 70, "USABLE"),
       Entry(FrameBufferPhysicalStart, 4, "FRAMEBUFFER") >>,
    << Entry(8, 16, "USABLE"), Entry(24, 24, "USABLE"),
       Entry(FrameBufferPhysicalStart, 4, "FRAMEBUFFER") >>
}

\* the page ranges of the loadable segments: one segment after a gap at
\* address 0, or two segments from address 0
ElfLayouts == { {Iv(8, 11)}, {Iv(0, 3), Iv(6, 7)} }

\* pitch * height of the framebuffer: none, a page and a half, one page, two pages
FrameBufferLens == {0, 3, Size4KiB, 2 * Size4KiB}

(* SyscallAllocHandler *)

\* the closure of find_map on one gap (syscall_alloc.rs:44-55): None, a
\* range, or a panic on an arithmetic overflow in a build that checks them;
\* in a build that does not, the sums wrap
AllocInGap(gap, S, align, n_pages, overflow_checks) ==
    LET aligned_start == NextMultipleOf(Max(gap.start, 1), Max(S, align))
        size == n_pages * S
        sum == aligned_start + Wrap(Wrap(size) - 1)
        overflows == size > AddrMax \/ sum > AddrMax
        required_end_inclusive == Wrap(sum)
    IN IF aligned_start > AddrMax THEN [kind |-> "None", overflowed |-> FALSE]
       ELSE IF overflows /\ overflow_checks THEN [kind |-> "Panic", overflowed |-> TRUE]
       ELSE IF required_end_inclusive <= gap.end
       THEN [kind |-> "Some", start |-> aligned_start, end |-> required_end_inclusive,
             overflowed |-> overflows]
       ELSE [kind |-> "None", overflowed |-> overflows]

RECURSIVE FindAllocRange(_, _, _, _, _, _)
\* find_map over the gaps, in address order; overflowed tells whether any
\* closure call overflowed
FindAllocRange(gaps, S, align, n_pages, overflow_checks, overflowed) ==
    IF gaps = << >> THEN [kind |-> "None", overflowed |-> overflowed]
    ELSE With(AllocInGap(Head(gaps), S, align, n_pages, overflow_checks), LAMBDA r :
            IF r.kind = "None"
            THEN With(overflowed \/ r.overflowed, LAMBDA any :
                      FindAllocRange(Tail(gaps), S, align, n_pages, overflow_checks, any))
            ELSE [r EXCEPT !.overflowed = @ \/ overflowed])

\* what a handler of this part leaves behind
ProcResult(st, outcome, result, ptr, out_len, page_size, overflowed) ==
    [st |-> st, outcome |-> outcome, result |-> result, ptr |-> ptr, out_len |-> out_len,
     page_size |-> page_size, overflowed |-> overflowed]

\* map_with_page_size::<S> (syscall_alloc.rs:30-90)
map_with_page_size(st, S, len, align, overflow_checks) ==
    With((len + S - 1) \div S, LAMBDA n_pages :
    With(ByStart(GapsBelow(st.mapped, HigherHalfStart)), LAMBDA gaps :
    With(FindAllocRange(gaps, S, align, n_pages, overflow_checks, FALSE), LAMBDA range :
        IF range.kind = "Panic"
        THEN ProcResult(st, "Panic", "none", 0, 0, S, TRUE)
        ELSE IF range.kind = "None"
        THEN ProcResult(st, "Return", "OutOfVirtualMemory", 0, 0, S, range.overflowed)
        ELSE IF range.end < range.start
        \* nodit refuses an interval whose end is before its start
        THEN ProcResult(st, "Panic", "none", 0, 0, S, range.overflowed)
        ELSE With([st EXCEPT !.mapped = SetInsertMergeTouching(@, range.start, range.end)],
                  LAMBDA inserted :
             \* VirtAddr::new panics; so does Page::range_inclusive's end
             IF ~Canonical(range.start)
             THEN ProcResult(inserted, "Panic", "none", 0, 0, S, range.overflowed)
             ELSE With(MapFreshPages(inserted, PageStarts(range.start, range.end, S), S,
                                     "UsedByUserMode(Heap)", "Heap"), LAMBDA done :
                  With([done EXCEPT !.result = "Ok"], LAMBDA back :
                     IF done.result = "Ok"
                     THEN ProcResult(back, "Return", "Ok", range.start, Wrap(n_pages * S), S,
                                     range.overflowed)
                     ELSE IF done.result \in {"OutOfMemory", "FrameAllocationFailed"}
                     THEN ProcResult(back, "Return", "OutOfPhysicalMemory", 0, 0, S,
                                     range.overflowed)
                     \* unreachable!()
                     ELSE ProcResult(back, "Panic", "none", 0, 0, S, range.overflowed)))))))

\* SyscallAllocHandler, from the six input words on: the decoder refuses
\* a zero len or align (NonZeroU64), handle_syscall then ends in todo!();
\* an align that is no power of two ends in the todo!() of line 98
syscall_alloc(st, len, align, overflow_checks) ==
    IF len = 0 \/ align = 0
    THEN ProcResult(st, "Terminate", "DecodeError", 0, 0, 0, FALSE)
    ELSE IF ~IsPowerOfTwo(align)
    THEN ProcResult(st, "Terminate", "none", 0, 0, 0, FALSE)
    ELSE IF len < Size2MiB
    THEN map_with_page_size(st, Size4KiB, len, align, overflow_checks)
    ELSE map_with_page_size(st, Size2MiB, len, align, overflow_checks)

\* SyscallTakeFrameBufferHandler, after logger::take_frame_buffer (frame_buffer.rs:38-90):
\* the range found is mapped and is not recorded in mapped_virtual_memory
take_frame_buffer(st, frame_buffer_len) ==
    LET fits(gap) == NextMultipleOf(gap.start, Size4KiB) + (frame_buffer_len - 1) <= gap.end
        gaps == {gap \in GapsBelow(st.mapped, HigherHalfStart) : fits(gap)}
    IN IF gaps = {}
       THEN ProcResult(st, "Return", "OutOfVirtualMemory", 0, 0, Size4KiB, FALSE)
       ELSE With(NextMultipleOf((CHOOSE g \in gaps : \A o \in gaps : g.start <= o.start).start,
                                Size4KiB), LAMBDA start :
            IF ~Canonical(start)
            THEN ProcResult(st, "Panic", "none", 0, 0, Size4KiB, FALSE)
            ELSE With(PageStarts(start, start + frame_buffer_len - 1, Size4KiB), LAMBDA pages :
                 With(MapFrameBuffer(st, pages, 1), LAMBDA done :
                 With([done EXCEPT !.result = "Ok"], LAMBDA back :
                    IF done.result = "Ok"
                    THEN ProcResult(back, "Return", "Ok", start, frame_buffer_len, Size4KiB,
                                    FALSE)
                    ELSE IF done.result = "FrameAllocationFailed"
                    THEN ProcResult(back, "Return", "OutOfPhysicalMemory", 0, 0, Size4KiB,
                                    FALSE)
                    ELSE ProcResult(back, "Panic", "none", 0, 0, Size4KiB, FALSE)))))

(* page_fault_handler, for a fault taken in ring 3 *)

\* lines 30-36: the page of size ExtendBy that holds the byte below the
\* stack bottom, if there is such a byte
GuardPage(size) ==
    IF INITIAL_RSP - size >= 1 THEN ContainingPage(INITIAL_RSP - size - 1, ExtendBy)
    ELSE -1

\* lines 46-82: a frame of size ExtendBy is allocated and mapped at the
\* guard page; stack_size grows when that worked
extend_stack(st, guard_page) ==
    With(allocate_frame_with_type(st.map, ExtendBy, "UsedByUserMode(Stack)"), LAMBDA r :
        IF r.frame = NoFrame
        THEN ProcResult(st, "Halt", "OutOfMemory", 0, 0, ExtendBy, FALSE)
        ELSE With(map_to([st EXCEPT !.map = r.map], guard_page, ExtendBy, r.frame, "Stack"),
                  LAMBDA done :
             With([done EXCEPT !.result = "Ok"], LAMBDA back :
                IF done.result = "Ok"
                THEN ProcResult(back, "Resume", "Ok", guard_page, ExtendBy, ExtendBy, FALSE)
                ELSE IF done.result = "FrameAllocationFailed"
                THEN ProcResult(back, "Halt", "OutOfMemory", 0, 0, ExtendBy, FALSE)
                \* result.unwrap()
                ELSE ProcResult(back, "Panic", done.result, 0, 0, ExtendBy, FALSE))))

page_fault_handler(st, size, accessed_address) ==
    IF ContainingPage(accessed_address, ExtendBy) = GuardPage(size)
    THEN extend_stack(st, GuardPage(size))
    ELSE ProcResult(st, "Halt", "none", 0, 0, 0, FALSE)

---------------------------------------------------------------------------
(* Specification of the life of the user task *)

\* the task as its page table, its set and the physical map describe it
TaskMemory ==
    [map |-> map, tables |-> page_tables, pages |-> user_pages,
     mapped |-> mapped_virtual_memory, result |-> "Ok"]

\* the variables of other parts that the task's life leaves alone
procFrame == <<memory_map, returned, epoch, phys_ops, virtVars, event_streams, task_state,
               user_mem, last, syscalls, irqs, limits, nmiVars, tableVars, extVars>>

InitProc ==
    /\ memory_map \in ProcBootMaps
    /\ \E elf \in ElfLayouts : \E loaded \in {LoadedTask(memory_map, elf)} :
             /\ loaded.result = "Ok"
             /\ map = loaded.map
             /\ page_tables = loaded.tables
             /\ user_pages = loaded.pages
             /\ mapped_virtual_memory = loaded.mapped
    /\ task_some = TRUE
    /\ stack_size = initial_stack_size
    /\ cpu_mode = "user"
    /\ \E l \in FrameBufferLens : frame_buffer = [NoFrameBuffer EXCEPT !.len = l]
    /\ proc_last = NoProcOperation
    /\ proc_ops = 0
    /\ ExtIdle
    /\ returned = << >> /\ epoch = 0 /\ phys_ops = 0
    /\ VirtIdle
    /\ event_streams = << >> /\ task_state = Running /\ user_mem = << >>
    /\ kernel_panicked = FALSE /\ last = NoOperation
    /\ syscalls = 0 /\ irqs = 0 /\ limits = [syscalls |-> 0, irqs |-> 0]
    /\ NmiIdle
    /\ TableIdle

\* user code runs
UserRuns == cpu_mode = "user" /\ ~kernel_panicked /\ proc_ops < MaxProcOps

\* the handler ran to its end: r is what it leaves behind.  A panic and
\* hlt_loop both leave the CPU halted with the task's memory as it is.
ProcCommit(op, len, align, addr, new_stack_size, r) ==
    /\ map' = r.st.map
    /\ page_tables' = r.st.tables
    /\ user_pages' = r.st.pages
    /\ mapped_virtual_memory' = r.st.mapped
    /\ stack_size' = new_stack_size
    /\ kernel_panicked' = (r.outcome \in PanicOutcomes)
    /\ cpu_mode' = IF r.outcome \in {"Return", "Resume"} THEN "user" ELSE "halted"
    /\ proc_last' = [op |-> op, outcome |-> r.outcome, result |-> r.result, len |-> len,
                     align |-> align, addr |-> addr, ptr |-> r.ptr, out_len |-> r.out_len,
                     page_size |-> r.page_size, overflowed |-> r.overflowed,
                     pre_mapped |-> mapped_virtual_memory, pre_pages |-> user_pages,
                     pre_tables |-> page_tables, pre_stack_size |-> stack_size,
                     pre_map |-> map, pre_frame_buffer |-> frame_buffer]
    /\ proc_ops' = proc_ops + 1
    /\ UNCHANGED <<task_some, procFrame>>

\* SyscallHandlers::handle_syscall with an id that is not in the map
\* (syscall_handlers.rs:151)
ProcInvalidId ==
    /\ UserRuns
    /\ \E r \in {ProcResult(TaskMemory, "Terminate", "none", 0, 0, 0, FALSE)} :
          ProcCommit("invalid_id", 0, 0, 0, stack_size, r)
    /\ UNCHANGED frame_buffer

\* SyscallExitHandler: todo!("Syscall exit called. Terminate process.")
ProcExit ==
    /\ UserRuns
    /\ \E r \in {ProcResult(TaskMemory, "Terminate", "none", 0, 0, 0, FALSE)} :
          ProcCommit("exit", 0, 0, 0, stack_size, r)
    /\ UNCHANGED frame_buffer

ProcAlloc(len, align, overflow_checks) ==
    /\ UserRuns
    /\ \E st \in {TaskMemory} : \E r \in {syscall_alloc(st, len, align, overflow_checks)} :
          ProcCommit("alloc", len, align, 0, stack_size, r)
    /\ UNCHANGED frame_buffer

\* a mutant of logger_take_frame_buffer: the display stays with the logger
logger_take_frame_buffer_Keep(fb) == fb

\* logger::take_frame_buffer: LOGGER.display.take() (logger.rs:264-266)
logger_take_frame_buffer(fb) == [fb EXCEPT !.taken = TRUE]

\* SyscallTakeFrameBufferHandler: the errors that come before the task is
\* looked at (frame_buffer.rs:25-37), then the mapping
ProcTakeFrameBuffer ==
    /\ UserRuns
    /\ \E st \in {TaskMemory} :
          IF frame_buffer.len = 0
          THEN /\ \E r \in {ProcResult(st, "Return", "NotAvailable", 0, 0, Size4KiB, FALSE)} :
                     ProcCommit("take_frame_buffer", 0, 0, 0, stack_size, r)
               /\ UNCHANGED frame_buffer
          ELSE IF frame_buffer.len % Size4KiB # 0
          THEN /\ \E r \in {ProcResult(st, "Return", "WouldNotBeSecure", 0, 0, Size4KiB,
                                       FALSE)} :
                     ProcCommit("take_frame_buffer", 0, 0, 0, stack_size, r)
               /\ UNCHANGED frame_buffer
          ELSE IF frame_buffer.taken
          THEN /\ \E r \in {ProcResult(st, "Return", "InUse", 0, 0, Size4KiB, FALSE)} :
                     ProcCommit("take_frame_buffer", 0, 0, 0, stack_size, r)
               /\ UNCHANGED frame_buffer
          ELSE \E r \in {take_frame_buffer(st, frame_buffer.len)} :
                  /\ ProcCommit("take_frame_buffer", frame_buffer.len, 0, 0, stack_size, r)
                  /\ frame_buffer' = [logger_take_frame_buffer(frame_buffer)
                                         EXCEPT !.held = (r.result = "Ok")]

\* SyscallReleaseFrameBufferHandler: "TODO: Actually release the frame
\* buffer", then syscall_return(&())
ProcReleaseFrameBuffer ==
    /\ UserRuns
    /\ \E r \in {ProcResult(TaskMemory, "Return", "Ok", 0, 0, 0, FALSE)} :
          ProcCommit("release_frame_buffer", 0, 0, 0, stack_size, r)
    /\ frame_buffer' = [frame_buffer EXCEPT !.held = FALSE]

\* the addresses user code faults on: the first byte, a byte between the
\* segments and the stack, the two pages below the stack bottom, the byte
\* below the stack bottom, a byte of the stack (an instruction fetch), the
\* higher half
FaultAddrs ==
    {0, 13, INITIAL_RSP - initial_stack_size - ExtendBy - 1,
     INITIAL_RSP - ExtendBy, INITIAL_RSP - initial_stack_size - 1,
     INITIAL_RSP - 1, HigherHalfStart}

\* a page fault taken in ring 3
ProcPageFault(accessed_address) ==
    /\ UserRuns
    /\ \E st \in {TaskMemory} : \E r \in {page_fault_handler(st, stack_size, accessed_address)} :
          ProcCommit("page_fault", 0, 0, accessed_address,
                     IF r.outcome = "Resume" THEN stack_size + ExtendBy ELSE stack_size, r)
    /\ UNCHANGED frame_buffer

\* the len and align user code passes to Alloc
AllocLens == {0, 1, Size4KiB + 1, Size2MiB, INITIAL_RSP, AddrMax}
AllocAligns == {0, 1, 3, Size2MiB, HigherHalfStart}

NextProc ==
    \/ ProcInvalidId
    \/ ProcExit
    \/ \E len \in AllocLens, align \in AllocAligns, overflow_checks \in BOOLEAN :
          ProcAlloc(len, align, overflow_checks)
    \/ ProcTakeFrameBuffer
    \/ ProcReleaseFrameBuffer
    \/ \E a \in FaultAddrs : ProcPageFault(a)

SpecProc == InitProc /\ [][NextProc]_vars

\* ---------------------------------------------------------------------------
\* The syscall codec (common/src/syscall.rs), the user's syscall wrapper
\* (user_mode_program/src/syscalls.rs) and the kernel's entry and dispatcher
\* (kernel/src/syscalls.rs, kernel/src/syscall_handlers.rs).
\*
\* Geometry: a byte holds ByteBase values instead of 256, so that a u64 is
\* still 8 bytes, a u32 4, a u16 2 and a u8 1, and every value stays a small
\* integer. Byte counts are the real ones.
\* ---------------------------------------------------------------------------
ByteBase == 4
WordBytes == 8
InputWords == 6
OutputWords == 7

\* the primitive kinds bincode meets in the syscall types; n is the number of
\* variants of a fieldless enum
U64 == [k |-> "u64", n |-> 0]
U16 == [k |-> "u16", n |-> 0]
U8 == [k |-> "u8", n |-> 0]
Bool == [k |-> "bool", n |-> 0]
NonZeroU64 == [k |-> "nonzero", n |-> 0]
Enum(n) == [k |-> "enum", n |-> n]

\* with_fixed_int_encoding: an integer takes its width, a variant index is a u32
KindBytes(kind) ==
    CASE kind.k \in {"u64", "nonzero"} -> 8
      [] kind.k = "enum" -> 4
      [] kind.k = "u16" -> 2
      [] kind.k \in {"u8", "bool"} -> 1

\* what bincode's Decode accepts for a kind
ValidValue(kind, x) ==
    CASE kind.k = "bool" -> x \in {0, 1}
      [] kind.k = "nonzero" -> x # 0
      [] kind.k = "enum" -> x < kind.n
      [] OTHER -> TRUE

\* a syscall type: a struct is the sequence of its primitive fields in
\* declaration order; a Result<T, E> is a u32 variant index (0 = Ok, 1 = Err)
\* followed by the fields of T or of E
Plain(fields) == [result |-> FALSE, ok |-> fields, err |-> << >>]
ResultOf(fields, errors) == [result |-> TRUE, ok |-> fields, err |-> <<Enum(errors)>>]

SliceData == <<U64, U64>>
FrameBufferInfo == <<U64, U64, U64, U16, U8, U8, U8, U8, U8, U8>>
SyscallAllocInput == <<NonZeroU64, NonZeroU64>>
SyscallLogInput == <<Enum(5)>> \o SliceData
SyscallMemInfoOutput == <<U64, U64, U64, U64>>
SyscallReadEventStreamInput == SliceData \o <<U64>>
SyscallTakeFrameBufferOutput == <<U64>> \o FrameBufferInfo

SyscallTakeFrameBufferId == 6
SyscallReleaseFrameBufferId == 7
SyscallSubscribeToKeyboardId == 8
SyscallReadKeyboardId == 9
SyscallSubscribeToMouseId == 11
SyscallReadMouseId == 12
SyscallReadEventStreamId == 13
SyscallWaitUntilEventId == 14

\* every impl Syscall of common/src: ID, Input, Output
Syscalls ==
    << [name |-> "SyscallAlloc", id |-> SyscallAllocId,
        input |-> Plain(SyscallAllocInput), output |-> ResultOf(SliceData, 2)],
       [name |-> "SyscallAlloc2", id |-> SyscallAlloc2Id,
        input |-> Plain(SyscallAllocInput), output |-> ResultOf(SliceData, 2)],
       [name |-> "SyscallExists", id |-> SyscallExistsId,
        input |-> Plain(<<U64>>), output |-> Plain(<<Bool>>)],
       [name |-> "SyscallExit", id |-> SyscallExitId,
        input |-> Plain(<< >>), output |-> Plain(<< >>)],
       [name |-> "SyscallTakeFrameBuffer", id |-> SyscallTakeFrameBufferId,
        input |-> Plain(<< >>), output |-> ResultOf(SyscallTakeFrameBufferOutput, 5)],
       [name |-> "SyscallReleaseFrameBuffer", id |-> SyscallReleaseFrameBufferId,
        input |-> Plain(<< >>), output |-> Plain(<< >>)],
       [name |-> "SyscallSubscribeToKeyboard", id |-> SyscallSubscribeToKeyboardId,
        input |-> Plain(<< >>), output |-> Plain(<<U64>>)],
       [name |-> "SyscallReadKeyboard", id |-> SyscallReadKeyboardId,
        input |-> Plain(SliceData), output |-> Plain(<<U64>>)],
       [name |-> "SyscallLog", id |-> SyscallLogId,
        input |-> Plain(SyscallLogInput), output |-> ResultOf(<< >>, 1)],
       [name |-> "SyscallMemInfo", id |-> SyscallMemInfoId,
        input |-> Plain(<< >>), output |-> Plain(SyscallMemInfoOutput)],
       [name |-> "SyscallSubscribeToMouse", id |-> SyscallSubscribeToMouseId,
        input |-> Plain(<< >>), output |-> ResultOf(<<U64>>, 1)],
       [name |-> "SyscallReadMouse", id |-> SyscallReadMouseId,
        input |-> Plain(SliceData), output |-> Plain(<<U64>>)],
       [name |-> "SyscallReadEventStream", id |-> SyscallReadEventStreamId,
        input |-> Plain(SyscallReadEventStreamInput), output |-> Plain(<<U64>>)],
       [name |-> "SyscallWaitUntilEvent", id |-> SyscallWaitUntilEventId,
        input |-> Plain(SliceData), output |-> Plain(<<U64>>)] >>

\* with_little_endian: the bytes of an integer, least significant first
to_le_bytes(v, n) == [i \in 1..n |-> (v \div (ByteBase ^ (i - 1))) % ByteBase]

RECURSIVE from_be_bytes(_)
from_be_bytes(b) ==
    IF b = << >> THEN 0
    ELSE b[Len(b)] + ByteBase * from_be_bytes(SubSeq(b, 1, Len(b) - 1))

RECURSIVE from_le_bytes(_)
from_le_bytes(b) ==
    IF b = << >> THEN 0 ELSE Head(b) + ByteBase * from_le_bytes(Tail(b))

\* zerocopy's as_bytes / as_mut_bytes of a [u64; N] on x86_64: the words in
\* order, each in the machine's byte order
RECURSIVE as_bytes(_)
as_bytes(words) ==
    IF words = << >> THEN << >>
    ELSE [i \in 1..WordBytes |-> (Head(words) \div (ByteBase ^ (i - 1))) % ByteBase]
         \o as_bytes(Tail(words))

RECURSIVE NativeWord(_, _, _)
NativeWord(bytes, from, i) ==
    IF i > WordBytes THEN 0
    ELSE bytes[from + i] * (ByteBase ^ (i - 1)) + NativeWord(bytes, from, i + 1)

WordsOf(bytes) ==
    [j \in 1..(Len(bytes) \div WordBytes) |-> NativeWord(bytes, (j - 1) * WordBytes, 1)]

Zeros(n) == [i \in 1..n |-> 0]

\* derive(Encode) of a struct: its fields in order
RECURSIVE EncodeFields(_, _, _)
EncodeFields(kinds, fields, i) ==
    IF i > Len(kinds) THEN << >>
    ELSE to_le_bytes(fields[i], KindBytes(kinds[i])) \o EncodeFields(kinds, fields, i + 1)

Encode(type, variant, fields) ==
    IF type.result
    THEN to_le_bytes(variant, 4)
         \o EncodeFields(IF variant = 0 THEN type.ok ELSE type.err, fields, 1)
    ELSE EncodeFields(type.ok, fields, 1)

\* bincode::encode_into_slice: Err(UnexpectedEnd) when the slice is too
\* short, else the encoding at the start of the slice and the rest untouched
encode_into_slice(encoded, slice_len) ==
    IF Len(encoded) > slice_len
    THEN [ok |-> FALSE, bytes |-> Zeros(slice_len)]
    ELSE [ok |-> TRUE, bytes |-> encoded \o Zeros(slice_len - Len(encoded))]

DecodeField(kind, bytes, acc) ==
    IF acc.pos + KindBytes(kind) > Len(bytes)
    THEN [acc EXCEPT !.ok = FALSE]
    ELSE With(from_le_bytes(SubSeq(bytes, acc.pos + 1, acc.pos + KindBytes(kind))),
              LAMBDA x :
                  IF ValidValue(kind, x)
                  THEN [ok |-> TRUE, pos |-> acc.pos + KindBytes(kind),
                        fields |-> Append(acc.fields, x)]
                  ELSE [acc EXCEPT !.ok = FALSE])

RECURSIVE DecodeFields(_, _, _, _)
DecodeFields(kinds, bytes, i, acc) ==
    IF i > Len(kinds) \/ ~acc.ok THEN acc
    ELSE DecodeFields(kinds, bytes, i + 1, DecodeField(kinds[i], bytes, acc))

\* bincode::decode_from_slice: reads the type from the start of the slice;
\* the bytes after it are not looked at
Decode(type, bytes) ==
    IF ~type.result
    THEN With(DecodeFields(type.ok, bytes, 1, [ok |-> TRUE, pos |-> 0, fields |-> << >>]),
              LAMBDA r : [ok |-> r.ok, variant |-> 0,
                          fields |-> IF r.ok THEN r.fields ELSE << >>])
    ELSE With(DecodeFields(<<Enum(2)>>, bytes, 1, [ok |-> TRUE, pos |-> 0, fields |-> << >>]),
              LAMBDA tag :
                  IF ~tag.ok THEN [ok |-> FALSE, variant |-> 0, fields |-> << >>]
                  ELSE With(DecodeFields(IF tag.fields[1] = 0 THEN type.ok ELSE type.err,
                                         bytes, 1,
                                         [ok |-> TRUE, pos |-> tag.pos, fields |-> << >>]),
                            LAMBDA r : [ok |-> r.ok, variant |-> tag.fields[1],
                                        fields |-> IF r.ok THEN r.fields ELSE << >>]))

\* Syscall::encode_input: the ID in word 0, the input in the six words after
\* it; panicked is the unwrap()
encode_input(S, variant, fields) ==
    With(encode_into_slice(Encode(S.input, variant, fields), InputWords * WordBytes),
         LAMBDA e : [panicked |-> ~e.ok, words |-> <<S.id>> \o WordsOf(e.bytes)])

\* Syscall::try_decode_input, over the six input words
try_decode_input(S, input) == Decode(S.input, as_bytes(input))

\* Syscall::encode_output, into seven words
encode_output(S, variant, fields) ==
    With(encode_into_slice(Encode(S.output, variant, fields), OutputWords * WordBytes),
         LAMBDA e : [panicked |-> ~e.ok, words |-> WordsOf(e.bytes)])

\* Syscall::decode_output, over the seven words
decode_output(S, output) == Decode(S.output, as_bytes(output))

\* raw_syscall: the registers the seven words are in when `syscall` executes
raw_syscall(input_and_ouput) ==
    [rdi |-> input_and_ouput[1], rsi |-> input_and_ouput[2], rdx |-> input_and_ouput[3],
     r10 |-> input_and_ouput[4], r8 |-> input_and_ouput[5], r9 |-> input_and_ouput[6],
     rax |-> input_and_ouput[7]]

\* raw_syscall_handler: r10 moves to rcx and rax is pushed, so that the sysv64
\* arguments input0..input6 are rdi, rsi, rdx, rcx, r8, r9 and the first stack slot
raw_syscall_handler(regs) ==
    <<regs.rdi, regs.rsi, regs.rdx, regs.r10, regs.r8, regs.r9, regs.rax>>

\* SyscallHandlers::handle_syscall: id is input0, the input is input1..input6
handle_syscall(inputs) == [id |-> inputs[1], input |-> SubSeq(inputs, 2, 7)]

\* the values a round is tried with: every field at its least value but one,
\* which takes each of its sample values, and every field at its greatest
FieldSamples(kind) ==
    CASE kind.k = "u64" -> <<0, 27, ByteBase ^ 7, ByteBase ^ 8 - 1>>
      [] kind.k = "nonzero" -> <<1, 27, ByteBase ^ 8 - 1>>
      [] kind.k = "u16" -> <<0, 6, ByteBase ^ 2 - 1>>
      [] kind.k = "u8" -> <<0, ByteBase - 1>>
      [] kind.k = "bool" -> <<0, 1>>
      [] kind.k = "enum" -> [i \in 1..kind.n |-> i - 1]

FieldValues(kinds) ==
    {[i \in 1..Len(kinds) |-> FieldSamples(kinds[i])[1]],
     [i \in 1..Len(kinds) |-> FieldSamples(kinds[i])[Len(FieldSamples(kinds[i]))]]}
    \cup UNION {{[i \in 1..Len(kinds) |->
                     IF i = p THEN FieldSamples(kinds[p])[s] ELSE FieldSamples(kinds[i])[1]]
                 : s \in 1..Len(FieldSamples(kinds[p]))} : p \in 1..Len(kinds)}

TypeValues(type) ==
    {[variant |-> 0, fields |-> f] : f \in FieldValues(type.ok)}
    \cup IF type.result
         THEN {[variant |-> 1, fields |-> f] : f \in FieldValues(type.err)}
         ELSE {}

\* the user program makes syscall s with input v: syscall::<S> encodes it,
\* raw_syscall puts the words in registers, the kernel's entry passes them to
\* the dispatcher, the handler found under the id decodes the input
CodecInput(s, v) ==
    /\ \E e \in {encode_input(Syscalls[s], v.variant, v.fields)} :
       \E h \in {handle_syscall(raw_syscall_handler(raw_syscall(e.words)))} :
          codec' = [dir |-> "input", syscall |-> s, variant |-> v.variant,
                    fields |-> v.fields, panicked |-> e.panicked, words |-> e.words,
                    id |-> h.id,
                    decoded |-> IF e.panicked
                                THEN NoCodec.decoded
                                ELSE try_decode_input(Syscalls[s], h.input)]
    /\ UNCHANGED <<physVars, virtVars, taskVars, nmiVars, tableVars, procVars, lockVars,
                   loggerVars, loaderVars, pureVars>>

\* the kernel's handler of syscall s returns v: syscall_return encodes it
\* into seven words, the user's syscall::<S> decodes them
CodecOutput(s, v) ==
    /\ \E e \in {encode_output(Syscalls[s], v.variant, v.fields)} :
          codec' = [dir |-> "output", syscall |-> s, variant |-> v.variant,
                    fields |-> v.fields, panicked |-> e.panicked, words |-> e.words,
                    id |-> Syscalls[s].id,
                    decoded |-> IF e.panicked
                                THEN NoCodec.decoded
                                ELSE decode_output(Syscalls[s], e.words)]
    /\ UNCHANGED <<physVars, virtVars, taskVars, nmiVars, tableVars, procVars, lockVars,
                   loggerVars, loaderVars, pureVars>>

InitCodec ==
    /\ memory_map = << >>
    /\ PhysIdle
    /\ VirtIdle
    /\ TaskIdle
    /\ NmiIdle
    /\ TableIdle
    /\ ProcIdle
    /\ ExtIdle

NextCodec ==
    \/ \E s \in DOMAIN Syscalls : \E v \in TypeValues(Syscalls[s].input) : CodecInput(s, v)
    \/ \E s \in DOMAIN Syscalls : \E v \in TypeValues(Syscalls[s].output) : CodecOutput(s, v)

SpecCodec == InitCodec /\ [][NextCodec]_vars

\* ---------------------------------------------------------------------------
\* The spinlocks of the kernel and the interrupt flag of each CPU: which code
\* path holds which of physical_memory, virtual_memory, TASK and its CPU's
\* local_apic, and where it can be interrupted.
\* ---------------------------------------------------------------------------
LockNames == {"physical_memory", "virtual_memory", "task", "local_apic"}

\* MEMORY.physical_memory, MEMORY.virtual_memory and TASK are one lock each;
\* local.local_apic is one lock per CPU
LockId(l, c) == [name |-> l, cpu |-> IF l = "local_apic" THEN c ELSE 0]

Locks == {LockId(l, c) : l \in LockNames, c \in Cpus}

LockOp(kind, l) == [op |-> kind, lock |-> l]

\* local_apic.rs:38-57 (io_apics.rs:32-33 and spcr.rs:57-59 take the same
\* two locks the same way); guards drop in the reverse order of declaration
map_if_needed_locks ==
    << LockOp("lock", "physical_memory"), LockOp("lock", "virtual_memory"),
       LockOp("unlock", "virtual_memory"), LockOp("unlock", "physical_memory") >>

\* run_user_mode_program.rs:72-263: physical_memory for the whole load,
\* TASK for the one statement that stores the Task, then enter_user_mode
\* with rflags = INTERRUPT_FLAG
run_user_mode_program_locks ==
    << LockOp("lock", "physical_memory"), LockOp("lock", "task"),
       LockOp("unlock", "task"), LockOp("unlock", "physical_memory"),
       LockOp("enter_user_mode", "none") >>

\* syscall_alloc.rs:39-93 and frame_buffer.rs:38-85: TASK.lock(), later
\* physical_memory.lock(), both dropped when the closure returns
syscall_alloc_locks ==
    << LockOp("lock", "task"), LockOp("lock", "physical_memory"),
       LockOp("unlock", "physical_memory"), LockOp("unlock", "task"),
       LockOp("sysretq", "none") >>

\* mem_info.rs:13, log.rs:22: TASK.lock()
task_lock_locks ==
    << LockOp("lock", "task"), LockOp("unlock", "task"), LockOp("sysretq", "none") >>

\* keyboard.rs:18, 43, mouse.rs:26, 59, read_event_stream.rs:21, and
\* wait_until_event.rs:23 when an event was pending: TASK.try_lock().unwrap()
task_try_lock_locks ==
    << LockOp("try_lock", "task"), LockOp("unlock", "task"), LockOp("sysretq", "none") >>

\* wait_until_event.rs:22-78 when nothing is pending, with interrupts
\* enabled while the guard of get_action is still alive
wait_until_event_locks_EnableFirst ==
    << LockOp("try_lock", "task"), LockOp("enable_interrupts", "none"),
       LockOp("unlock", "task"), LockOp("hlt", "none") >>

\* wait_until_event.rs:22-78 when nothing is pending: the guard drops at the
\* end of get_action, then interrupts::enable() and hlt_loop()
wait_until_event_locks ==
    << LockOp("try_lock", "task"), LockOp("unlock", "task"),
       LockOp("enable_interrupts", "none"), LockOp("hlt", "none") >>

\* exit.rs:9: todo!()
exit_locks == << LockOp("panic", "none") >>

\* page_fault_handler.rs:26-73: the guard page was hit and the stack grew
page_fault_extend_locks ==
    << LockOp("lock", "task"), LockOp("lock", "physical_memory"),
       LockOp("unlock", "physical_memory"), LockOp("unlock", "task"),
       LockOp("iretq", "none") >>

\* page_fault_handler.rs:74-81: growing the stack failed; hlt_loop with both guards alive
page_fault_out_of_memory_locks ==
    << LockOp("lock", "task"), LockOp("lock", "physical_memory"), LockOp("hlt", "none") >>

\* page_fault_handler.rs:83-86: any other fault; hlt_loop with the TASK guard alive
page_fault_halt_locks == << LockOp("lock", "task"), LockOp("hlt", "none") >>

\* ps2_interrupt_handler.rs:26-82: both guards live to the end of the block
\* that computes the action, then the context is restored
ps2_interrupt_handler_locks ==
    << LockOp("try_lock", "local_apic"), LockOp("try_lock", "task"),
       LockOp("unlock", "task"), LockOp("unlock", "local_apic"),
       LockOp("restore", "none") >>

SyscallPaths ==
    {"syscall_alloc", "task_lock", "task_try_lock", "wait_until_event", "exit"}

PageFaultPaths == {"page_fault_extend", "page_fault_out_of_memory", "page_fault_halt"}

PathOps(p) ==
    CASE p = "boot" -> map_if_needed_locks \o run_user_mode_program_locks
      [] p = "syscall_alloc" -> syscall_alloc_locks
      [] p = "task_lock" -> task_lock_locks
      [] p = "task_try_lock" -> task_try_lock_locks
      [] p = "wait_until_event" -> wait_until_event_locks
      [] p = "exit" -> exit_locks
      [] p = "page_fault_extend" -> page_fault_extend_locks
      [] p = "page_fault_out_of_memory" -> page_fault_out_of_memory_locks
      [] p = "page_fault_halt" -> page_fault_halt_locks
      [] p = "ps2_interrupt_handler" -> ps2_interrupt_handler_locks
      [] OTHER -> << >>

\* in ring 3, interrupts on (run_user_mode_program.rs:245)
UserContext == [NoContext EXCEPT !.path = "user", !.rflags_if = TRUE]

RemoveLock(held, l) == SelectSeq(held, LAMBDA x : x # l)

\* the CPU's next instruction of its kernel path. A lock() of a held lock
\* spins; a failed try_lock().unwrap() panics, and rust_panic leaves the CPU
\* in hlt_loop with interrupts off and its guards alive
KernelStep(c) ==
    /\ cpu_ctx[c].pc \in DOMAIN PathOps(cpu_ctx[c].path)
    /\ \E o \in {PathOps(cpu_ctx[c].path)[cpu_ctx[c].pc]} :
       \E id \in {LockId(o.lock, c)} :
       \E next \in {[cpu_ctx[c] EXCEPT !.pc = @ + 1]} :
          CASE o.op = "lock" ->
                 /\ lock_holder[id] = 0
                 /\ lock_holder' = [lock_holder EXCEPT ![id] = c]
                 /\ cpu_ctx' = [cpu_ctx EXCEPT ![c] = [next EXCEPT !.held = Append(@, o.lock)]]
            [] o.op = "try_lock" ->
                 IF lock_holder[id] = 0
                 THEN /\ lock_holder' = [lock_holder EXCEPT ![id] = c]
                      /\ cpu_ctx' = [cpu_ctx EXCEPT
                                        ![c] = [next EXCEPT !.held = Append(@, o.lock)]]
                 ELSE /\ cpu_ctx' = [cpu_ctx EXCEPT
                                        ![c] = [cpu_ctx[c] EXCEPT
                                                   !.failed = [path |-> cpu_ctx[c].path,
                                                               lock |-> o.lock],
                                                   !.path = "hlt", !.pc = 0, !.rflags_if = FALSE]]
                      /\ UNCHANGED lock_holder
            [] o.op = "unlock" ->
                 /\ lock_holder' = [lock_holder EXCEPT ![id] = 0]
                 /\ cpu_ctx' = [cpu_ctx EXCEPT
                                   ![c] = [next EXCEPT !.held = RemoveLock(@, o.lock)]]
            [] o.op = "enable_interrupts" ->
                 /\ cpu_ctx' = [cpu_ctx EXCEPT ![c] = [next EXCEPT !.rflags_if = TRUE]]
                 /\ UNCHANGED lock_holder
            [] o.op \in {"sysretq", "iretq", "enter_user_mode"} ->
                 /\ cpu_ctx' = [cpu_ctx EXCEPT
                                   ![c] = [UserContext EXCEPT !.held = cpu_ctx[c].held]]
                 /\ UNCHANGED lock_holder
            [] o.op = "hlt" ->
                 /\ cpu_ctx' = [cpu_ctx EXCEPT
                                   ![c] = [cpu_ctx[c] EXCEPT !.path = "hlt", !.pc = 0]]
                 /\ UNCHANGED lock_holder
            [] o.op = "panic" ->
                 /\ cpu_ctx' = [cpu_ctx EXCEPT
                                   ![c] = [cpu_ctx[c] EXCEPT !.path = "hlt", !.pc = 0,
                                                             !.rflags_if = FALSE]]
                 /\ UNCHANGED lock_holder
            [] o.op = "restore" ->
                 \E resume_syscall \in BOOLEAN :
                    /\ resume_syscall => cpu_ctx[c].interrupted.path # "user"
                    /\ cpu_ctx' = [cpu_ctx EXCEPT
                          ![c] = IF resume_syscall \/ cpu_ctx[c].interrupted.path = "user"
                                 THEN [UserContext EXCEPT !.held = cpu_ctx[c].held]
                                 ELSE [cpu_ctx[c] EXCEPT
                                          !.path = cpu_ctx[c].interrupted.path,
                                          !.pc = cpu_ctx[c].interrupted.pc,
                                          !.rflags_if = TRUE,
                                          !.interrupted = NoContext.interrupted]]
                    /\ UNCHANGED lock_holder
    /\ UNCHANGED <<machine, physVars, virtVars, taskVars, nmiVars, tableVars, procVars,
                   codecVars, loggerVars,
                   loaderVars, pureVars>>

\* `syscall` in ring 3: SFMASK clears IF on entry (syscalls.rs:105)
UserSyscall(c, p) ==
    /\ cpu_ctx[c].path = "user"
    /\ cpu_ctx' = [cpu_ctx EXCEPT ![c] = [@ EXCEPT !.path = p, !.pc = 1, !.rflags_if = FALSE]]
    /\ UNCHANGED <<lock_holder, machine, physVars, virtVars, taskVars, nmiVars, tableVars,
                   procVars, codecVars, loggerVars,
                   loaderVars, pureVars>>

\* a page fault in ring 3, through an interrupt gate (idt.rs:86-88)
UserPageFault(c, p) ==
    /\ cpu_ctx[c].path = "user"
    /\ cpu_ctx' = [cpu_ctx EXCEPT ![c] = [@ EXCEPT !.path = p, !.pc = 1, !.rflags_if = FALSE]]
    /\ UNCHANGED <<lock_holder, machine, physVars, virtVars, taskVars, nmiVars, tableVars,
                   procVars, codecVars, loggerVars,
                   loaderVars, pureVars>>

\* the I/O APIC delivers a PS/2 interrupt (io_apics.rs:56-62, 70-76: one
\* destination CPU); the CPU takes it when its IF is set, through an
\* interrupt gate (idt.rs:93-97)
Ps2Irq(c) ==
    /\ c = machine.irq_dest
    /\ cpu_ctx[c].rflags_if
    /\ cpu_ctx' = [cpu_ctx EXCEPT
                      ![c] = [@ EXCEPT !.path = "ps2_interrupt_handler", !.pc = 1,
                                       !.rflags_if = FALSE,
                                       !.interrupted = [path |-> cpu_ctx[c].path,
                                                        pc |-> cpu_ctx[c].pc]]]
    /\ UNCHANGED <<lock_holder, machine, physVars, virtVars, taskVars, nmiVars, tableVars,
                   procVars, codecVars, loggerVars,
                   loaderVars, pureVars>>

\* the bootloader starts every CPU with interrupts off; the BSP maps the
\* Local APIC and loads the user program, an AP initialises itself and halts
\* (main.rs:83-107)
InitLock ==
    /\ \E bsp \in Cpus, dest \in Cpus : machine = [bsp |-> bsp, irq_dest |-> dest]
    /\ lock_holder = [id \in Locks |-> 0]
    /\ cpu_ctx = [c \in Cpus |->
                     IF c = machine.bsp
                     THEN [NoContext EXCEPT !.path = "boot", !.pc = 1]
                     ELSE [NoContext EXCEPT !.path = "hlt"]]
    /\ memory_map = << >>
    /\ PhysIdle
    /\ VirtIdle
    /\ TaskIdle
    /\ NmiIdle
    /\ TableIdle
    /\ ProcIdle
    /\ CodecIdle
    /\ LoggerIdle
    /\ LoaderIdle
    /\ PureIdle

NextLock ==
    \/ \E c \in Cpus : KernelStep(c)
    \/ \E c \in Cpus, p \in SyscallPaths : UserSyscall(c, p)
    \/ \E c \in Cpus, p \in PageFaultPaths : UserPageFault(c, p)
    \/ \E c \in Cpus : Ps2Irq(c)

SpecLock == InitLock /\ [][NextLock]_vars

---------------------------------------------------------------------------
(* Specification of a panic on a machine whose CPUs log: rust_panic        *)
(* (panic_handler.rs) with the mutex of KernelLogger::log (logger.rs:195-  *)
(* 207).  Every CPU has finished idt::init and local_apic::init.           *)

panicLogFrame == <<physVars, virtVars, taskVars, tableVars, procVars, codecVars, lockVars,
                   loaderVars, pureVars>>

InitPanicLog ==
    /\ cpu_pc = [c \in Cpus |-> "ready"]
    /\ idt_loaded = [c \in Cpus |-> TRUE]
    /\ local_apic_ready = [c \in Cpus |-> TRUE]
    /\ nmi_handler_states = [c \in Cpus |-> "NmiHandlerSet"]
    /\ did_panic = FALSE
    /\ panic_todo = << >>
    /\ send_to = {}
    /\ nmi_sent = {}
    /\ nmi_in_flight = {}
    /\ swapped_early = {}
    /\ triple_fault = FALSE
    /\ panics = NoPanics
    /\ logger_inner = NoLogger
    /\ memory_map = << >>
    /\ PhysIdle
    /\ VirtIdle
    /\ TaskIdle
    /\ TableIdle
    /\ ProcIdle
    /\ CodecIdle
    /\ LockIdle
    /\ LoaderIdle
    /\ PureIdle

\* spin::Mutex::lock returns once the mutex is free
MutexLock(holder) == holder = 0

\* KernelLogger::log on a running CPU, `self.inner.lock()` (logger.rs:196)
KernelLogLock(c) ==
    /\ cpu_pc[c] = "ready"
    /\ MutexLock(logger_inner.holder)
    /\ logger_inner' = [logger_inner EXCEPT !.holder = c]
    /\ cpu_pc' = [cpu_pc EXCEPT ![c] = "logging"]
    /\ UNCHANGED <<idt_loaded, local_apic_ready, nmi_handler_states, did_panic, panic_todo,
                   send_to, nmi_sent, nmi_in_flight, swapped_early, triple_fault, panics,
                   panicLogFrame>>

\* KernelLogger::log, the writes and the drop of the guard (logger.rs:197-207)
KernelLogWrite(c) ==
    /\ cpu_pc[c] = "logging"
    /\ logger_inner' = [logger_inner EXCEPT !.holder = 0]
    /\ cpu_pc' = [cpu_pc EXCEPT ![c] = "ready"]
    /\ UNCHANGED <<idt_loaded, local_apic_ready, nmi_handler_states, did_panic, panic_todo,
                   send_to, nmi_sent, nmi_in_flight, swapped_early, triple_fault, panics,
                   panicLogFrame>>

\* rust_panic up to the loop (panic_handler.rs:14-24, 43-45): the panic
\* that wins DID_PANIC visits its peers when it gets its local APIC and goes
\* straight to log::error! when it does not; every other panic halts
PanicEnter(c, lock_free) ==
    /\ cpu_pc[c] = "ready"
    /\ did_panic' = TRUE
    /\ IF WinsDidPanic(did_panic)
       THEN /\ cpu_pc' = [cpu_pc EXCEPT ![c] = "panicking"]
            /\ panic_todo' = IF lock_free THEN SortedSeq(Cpus \ {c}) ELSE << >>
            /\ panics' = [panics EXCEPT !.won = Append(@, c)]
       ELSE /\ cpu_pc' = [cpu_pc EXCEPT ![c] = "halted"]
            /\ panics' = [panics EXCEPT !.lost = Append(@, c)]
            /\ UNCHANGED panic_todo
    /\ UNCHANGED <<idt_loaded, local_apic_ready, nmi_handler_states, send_to, nmi_sent,
                   nmi_in_flight, swapped_early, triple_fault, logger_inner, panicLogFrame>>

\* the loop of rust_panic is over
SignalledPeers(c) == cpu_pc[c] = "panicking" /\ send_to = {} /\ panic_todo = << >>

\* rust_panic, log::error!("{info}"): `self.inner.lock()` (panic_handler.rs:40,
\* logger.rs:196)
PanicLogLock(c) ==
    /\ SignalledPeers(c)
    /\ MutexLock(logger_inner.holder)
    /\ logger_inner' = [logger_inner EXCEPT !.holder = c]
    /\ cpu_pc' = [cpu_pc EXCEPT ![c] = "panic_logging"]
    /\ UNCHANGED <<idt_loaded, local_apic_ready, nmi_handler_states, did_panic, panic_todo,
                   send_to, nmi_sent, nmi_in_flight, swapped_early, triple_fault, panics,
                   panicLogFrame>>

\* rust_panic, the message is written, the guard dropped, then hlt_loop
\* (logger.rs:197-207, panic_handler.rs:41)
PanicLogWrite(c) ==
    /\ cpu_pc[c] = "panic_logging"
    /\ logger_inner' = [holder |-> 0, written |-> Append(logger_inner.written, c)]
    /\ cpu_pc' = [cpu_pc EXCEPT ![c] = "halted"]
    /\ panics' = [panics EXCEPT !.logged = Append(@, c)]
    /\ UNCHANGED <<idt_loaded, local_apic_ready, nmi_handler_states, did_panic, panic_todo,
                   send_to, nmi_sent, nmi_in_flight, swapped_early, triple_fault,
                   panicLogFrame>>

NextPanicLog ==
    \/ \E c \in Cpus : KernelLogLock(c)
    \/ \E c \in Cpus : KernelLogWrite(c)
    \/ \E c \in Cpus, lock_free \in BOOLEAN : PanicEnter(c, lock_free)
    \/ \E c \in Cpus : PanicSwap(c)
    \/ \E c \in Cpus : PanicSendNmi(c)
    \/ \E c \in Cpus : NmiDelivered(c)
    \/ \E c \in Cpus : PanicLogLock(c)
    \/ \E c \in Cpus : PanicLogWrite(c)

SpecPanicLog == InitPanicLog /\ [][NextPanicLog]_vars

\* every CPU that is not halted keeps executing, a sent NMI is delivered,
\* and a CPU that spins on the logger's mutex gets it if it is free again
\* and again; whether and when a CPU logs or panics is left open
PanicLogFairness ==
    \A c \in Cpus :
        /\ WF_vars(KernelLogWrite(c))
        /\ WF_vars(PanicSwap(c))
        /\ WF_vars(PanicSendNmi(c))
        /\ WF_vars(NmiDelivered(c))
        /\ SF_vars(PanicLogLock(c))
        /\ WF_vars(PanicLogWrite(c))

SpecPanicLogFair == InitPanicLog /\ [][NextPanicLog]_vars /\ PanicLogFairness

---------------------------------------------------------------------------
(* Specification of the loader: run_user_mode_program on one ELF file, on  *)
(* machines with more or less free physical memory                         *)

\* the length of the second USABLE entry, at most
MaxUsable == 26

\* the heap's entry, then free memory for the kernel's level 4 table and
\* for the task
LoadBootMaps ==
    {<< Entry(8, global_allocator_size, "USABLE"),
        Entry(8 + global_allocator_size, n, "USABLE") >> : n \in 2..MaxUsable}

\* an ELF file: whether minimal_parse and segment_data accept it, e_entry,
\* the number of program headers, and the page ranges of its loadable
\* segments with p_memsz > 0
Elf(parses, entry, headers, segs) ==
    [parses |-> parses, entry |-> entry, headers |-> headers, segs |-> segs]

ElfFiles ==
    {Elf(TRUE, 8, 1, {Iv(8, 11)}),
     Elf(TRUE, 1, 2, {Iv(0, 3), Iv(6, 7)}),
     Elf(FALSE, 8, 1, {Iv(8, 11)}),
     Elf(TRUE, 0, 1, {Iv(8, 11)}),
     Elf(TRUE, INITIAL_RSP, 1, {Iv(8, 11)}),
     Elf(TRUE, 8, 0, {}),
     Elf(TRUE, 8, 1, {}),
     Elf(TRUE, 8, 2, {Iv(8, 11), Iv(10, 13)}),
     Elf(TRUE, 8, 2, {Iv(8, 9), Iv(INITIAL_RSP - Size4KiB, INITIAL_RSP + 1)}),
     Elf(TRUE, 8, 1, {Iv(INITIAL_RSP - initial_stack_size - Size4KiB,
                         INITIAL_RSP - initial_stack_size + 1)})}

\* what run_user_mode_program leaves behind
LoadResult(st, outcome, error, cr3, task) ==
    [st |-> st, outcome |-> outcome, error |-> error, cr3 |-> cr3, task |-> task]

\* the Err arm (run_user_mode_program.rs:250-255)
LoadErr(st, error) ==
    LoadResult([st EXCEPT !.map = remove_user_mode_memory(@), !.tables = {},
                          !.pages = {}, !.mapped = {}],
               "Err", error, "kernel", FALSE)

\* the longest prefix of the segments that lie below 0x8000_0000_0000
RECURSIVE InBounds(_)
InBounds(segments) ==
    IF segments = << >> \/ Head(segments).end >= INITIAL_RSP THEN << >>
    ELSE <<Head(segments)>> \o InBounds(Tail(segments))

\* the closure of run_user_mode_program (lines 74-248) and the match on
\* its result
run_user_mode_program(m, elf) ==
    With([map |-> m, tables |-> {}, pages |-> {}, mapped |-> {}, result |-> "Ok"],
         LAMBDA none :
    IF ~elf.parses THEN LoadErr(none, "ElfParseError")
    ELSE IF elf.entry = 0 THEN LoadErr(none, "NoEntryPoint")
    ELSE IF elf.entry >= INITIAL_RSP THEN LoadErr(none, "OutOfBoundsMemory")
    ELSE With(allocate_frame_with_type(m, Size4KiB, "UsedByUserMode(PageTables)"),
              LAMBDA l4 :
         IF l4.frame = NoFrame THEN LoadErr(none, "OutOfMemory")
         ELSE With([none EXCEPT !.map = l4.map], LAMBDA st0 :
              IF elf.headers = 0 THEN LoadErr(st0, "NoSegments")
              ELSE With(ByStart(elf.segs), LAMBDA segments :
                   With(LoadSegments(st0, InBounds(segments)), LAMBDA st1 :
                   With(INITIAL_RSP - initial_stack_size, LAMBDA stack_start :
                      IF st1.result = "OverlappingElfSegments"
                      THEN LoadErr(st1, "OverlappingElfSegments")
                      ELSE IF st1.result = "OutOfMemory" THEN LoadErr(st1, "OutOfMemory")
                      ELSE IF st1.result # "Ok" THEN LoadErr(st1, "MapToError")
                      ELSE IF Len(InBounds(segments)) < Len(segments)
                      THEN LoadErr(st1, "OutOfBoundsMemory")
                      ELSE IF SetOverlaps(st1.mapped, stack_start, INITIAL_RSP - 1)
                      THEN LoadErr(st1, "OverlappingElfSegmentsAndStack")
                      ELSE With([st1 EXCEPT !.mapped =
                                     SetInsertMergeTouching(@, stack_start, INITIAL_RSP - 1)],
                                LAMBDA inserted :
                           With(MapFreshPages(inserted,
                                    PageStarts(stack_start, INITIAL_RSP - 1, Size4KiB),
                                    Size4KiB, "UsedByUserMode(Stack)", "Stack"),
                                LAMBDA st2 :
                              IF st2.result = "OutOfMemory" THEN LoadErr(st2, "OutOfMemory")
                              \* map_to(..).unwrap() (line 211)
                              ELSE IF st2.result # "Ok"
                              THEN LoadResult(st2, "Panic", st2.result, "kernel", FALSE)
                              \* Cr3::write, then elf_range.unwrap() (lines 230-236)
                              ELSE IF elf.segs = {}
                              THEN LoadResult(st2, "Panic", "elf_range", "user", FALSE)
                              ELSE LoadResult(st2, "Ok", "none", "user", TRUE)))))))))

\* what the loader leaves alone
loadFrame == <<memory_map, returned, epoch, phys_ops, virtVars, event_streams, task_state,
               user_mem, last, syscalls, irqs, limits, nmiVars, tableVars, frame_buffer,
               proc_last, proc_ops, codecVars, lockVars, loggerVars, pureVars>>

InitLoad ==
    /\ memory_map \in LoadBootMaps
    /\ map = InitialPhysicalMap(memory_map)
    /\ returned = << >> /\ epoch = 0 /\ phys_ops = 0
    /\ task_some = FALSE /\ stack_size = 0 /\ user_pages = {} /\ page_tables = {}
    /\ cpu_mode = "kernel" /\ frame_buffer = NoFrameBuffer
    /\ proc_last = NoProcOperation /\ proc_ops = 0
    /\ loader = NoLoader
    /\ VirtIdle
    /\ TaskIdle
    /\ NmiIdle
    /\ TableIdle
    /\ CodecIdle
    /\ LockIdle
    /\ LoggerIdle
    /\ PureIdle

\* fn run_user_mode_program(elf) runs to its end
LoadProgram(elf) ==
    /\ cpu_mode = "kernel"
    /\ loader.outcome = "none"
    /\ \E r \in {run_user_mode_program(map, elf)} :
          /\ map' = r.st.map
          /\ page_tables' = r.st.tables
          /\ user_pages' = r.st.pages
          /\ mapped_virtual_memory' = IF r.task THEN r.st.mapped ELSE {}
          /\ task_some' = r.task
          /\ stack_size' = IF r.task THEN initial_stack_size ELSE 0
          /\ kernel_panicked' = (r.outcome = "Panic")
          /\ cpu_mode' = IF r.outcome = "Panic" THEN "halted" ELSE "kernel"
          /\ loader' = [cr3 |-> r.cr3, outcome |-> r.outcome, error |-> r.error,
                        pre_map |-> map]
    /\ UNCHANGED loadFrame

\* Ok(input) => enter_user_mode(input) (lines 260-263)
EnterUserMode ==
    /\ cpu_mode = "kernel"
    /\ loader.outcome = "Ok"
    /\ cpu_mode' = "user"
    /\ UNCHANGED <<map, page_tables, user_pages, mapped_virtual_memory, task_some,
                   stack_size, kernel_panicked, loader, loadFrame>>

\* Err(e) => hlt_loop() (lines 264-267)
HaltAfterLoadError ==
    /\ cpu_mode = "kernel"
    /\ loader.outcome = "Err"
    /\ cpu_mode' = "halted"
    /\ UNCHANGED <<map, page_tables, user_pages, mapped_virtual_memory, task_some,
                   stack_size, kernel_panicked, loader, loadFrame>>

NextLoad ==
    \/ \E elf \in ElfFiles : LoadProgram(elf)
    \/ EnterUserMode
    \/ HaltAfterLoadError

SpecLoad == InitLoad /\ [][NextLoad]_vars

---------------------------------------------------------------------------
(* Specification of the copy of one ELF segment into its frames            *)
(* (run_user_mode_program.rs:137-186), in bytes.  A page holds             *)
(* CopyPageSize bytes; byte i of the file's segment data has the value i + *)
(* 1, and a frame that was not written yet holds -1 in every byte.         *)

CopyPageSize == 4
\* the largest p_vaddr and p_memsz of the segments tried
MaxVaddr == 5
MaxMemsz == 9

\* u64::saturating_sub
SaturatingSub(a, b) == IF a >= b THEN a - b ELSE 0

\* the file's bytes of the segment: p_filesz of them
SegmentData(filesz) == [i \in 1..filesz |-> i]

\* the start addresses of start_page..=end_page
SegmentPages(p_vaddr, memsz) ==
    PageStarts(ContainingPage(p_vaddr, CopyPageSize),
               ContainingPage(p_vaddr + memsz - 1, CopyPageSize) + (CopyPageSize - 1),
               CopyPageSize)

\* a mutant of AlreadyCopied: every page copies from the start of the data
AlreadyCopied_Nothing(page_start, p_vaddr, filesz) == 0

\* lines 167-171
AlreadyCopied(page_start, p_vaddr, filesz) ==
    Min(SaturatingSub(page_start, p_vaddr), filesz)

\* lines 158-185 for one page: the frame's bytes afterwards (offset o is
\* element o + 1), and whether a slice index or a subtraction was out of range
CopyIntoFrame(page_start, p_vaddr, filesz, segment_data) ==
    LET bytes_to_zero_before == Min(SaturatingSub(p_vaddr, page_start), CopyPageSize)
        copy_start == bytes_to_zero_before
        already_copied == AlreadyCopied(page_start, p_vaddr, filesz)
        copy_end == Min(copy_start + (filesz - already_copied), CopyPageSize)
        copy_len == copy_end - copy_start
        panicked == \/ filesz < already_copied
                    \/ copy_end < copy_start
                    \/ already_copied + copy_len > Len(segment_data)
    IN [panicked |-> panicked,
        frame |-> IF panicked THEN [o \in 1..CopyPageSize |-> -1]
                  ELSE [o \in 1..CopyPageSize |->
                           IF o - 1 < bytes_to_zero_before THEN 0
                           ELSE IF o - 1 < copy_end
                           THEN segment_data[already_copied + (o - 1 - copy_start) + 1]
                           ELSE 0]]

copyFrame == <<physVars, virtVars, taskVars, nmiVars, tableVars, procVars, codecVars,
               lockVars, loggerVars, loaderVars, offset_mapping, cut_result>>

InitCopy ==
    /\ \E p_vaddr \in 0..MaxVaddr, memsz \in 1..MaxMemsz :
          \E filesz \in 0..memsz :
             segment_copy = [p_vaddr |-> p_vaddr, filesz |-> filesz, memsz |-> memsz,
                             frames |-> << >>, panicked |-> FALSE]
    /\ offset_mapping = NoOffsetMapping
    /\ cut_result = NoCut
    /\ memory_map = << >>
    /\ PhysIdle
    /\ VirtIdle
    /\ TaskIdle
    /\ NmiIdle
    /\ TableIdle
    /\ ProcIdle
    /\ CodecIdle
    /\ LockIdle
    /\ LoggerIdle
    /\ LoaderIdle

\* one turn of `for page in start_page..=end_page`
CopyPage ==
    /\ ~segment_copy.panicked
    /\ \E pages \in {SegmentPages(segment_copy.p_vaddr, segment_copy.memsz)} :
          /\ Len(segment_copy.frames) < Len(pages)
          /\ \E r \in {CopyIntoFrame(pages[Len(segment_copy.frames) + 1],
                                     segment_copy.p_vaddr, segment_copy.filesz,
                                     SegmentData(segment_copy.filesz))} :
                segment_copy' = [segment_copy EXCEPT !.frames = Append(@, r.frame),
                                                     !.panicked = r.panicked]
    /\ UNCHANGED copyFrame

NextCopy == CopyPage

SpecCopy == InitCopy /\ [][NextCopy]_vars

---------------------------------------------------------------------------
(* Specification of the offset mapping that init_with_page_size builds in  *)
(* the new level 4 table (memory.rs:122-173), one memory map entry at a    *)
(* step.  Limine hands over entries in ascending order of base; USABLE     *)
(* entries overlap no other entry, entries of other types may overlap.     *)

\* entries of a memory map, at most
MaxEntries == 3

OffsetEntryPool ==
    {Entry(b, l, t) : b \in {0, 6, 20, 41}, l \in {3, global_allocator_size},
                      t \in {"USABLE", "FRAMEBUFFER", "RESERVED"}}

EntriesOverlap(a, b) ==
    Overlap(a.base, a.base + a.length - 1, b.base, b.base + b.length - 1)

\* what the Limine protocol promises, and the entry the heap needs
ValidOffsetMap(mm) ==
    /\ \A i \in 1..(Len(mm) - 1) : mm[i].base < mm[i + 1].base
    /\ \A i, j \in 1..Len(mm) :
          (i # j /\ mm[i].entry_type = "USABLE") => ~EntriesOverlap(mm[i], mm[j])
    /\ \E i \in 1..Len(mm) :
          mm[i].entry_type = "USABLE" /\ mm[i].length >= global_allocator_size

OffsetBootMaps ==
    UNION {{mm \in [1..n -> OffsetEntryPool] : ValidOffsetMap(mm)} : n \in 1..MaxEntries}

\* range_to_map with `first > last_mapped_address` replaced by true
RangeToMap_Whole(entry, last_mapped_address) ==
    [some |-> TRUE, start |-> entry.base, end |-> entry.base + (entry.length - 1)]

\* lines 133-148: the part of the entry above last_mapped_address (-1 is None)
RangeToMap(entry, last_mapped_address) ==
    LET first_addr == entry.base
        last_addr == first_addr + (entry.length - 1)
    IN IF last_mapped_address = -1 \/ first_addr > last_mapped_address
       THEN [some |-> TRUE, start |-> first_addr, end |-> last_addr]
       ELSE IF last_addr > last_mapped_address
       THEN [some |-> TRUE, start |-> last_mapped_address + 1, end |-> last_addr]
       ELSE [some |-> FALSE, start |-> 0, end |-> 0]

\* lines 149-169: map_to for each frame of the range, in order; map_to of a
\* page that is mapped already is PageAlreadyMapped, and unwrap() panics
OffsetMapEntry(om, entry) ==
    IF entry.entry_type \notin OffsetMapped THEN [om EXCEPT !.done = @ + 1]
    ELSE With(RangeToMap(entry, om.last_mapped_address), LAMBDA range_to_map :
         IF ~range_to_map.some THEN [om EXCEPT !.done = @ + 1]
         ELSE LET S == om.size
                  first_frame == ContainingPage(range_to_map.start, S)
                  last_frame == ContainingPage(range_to_map.end, S)
                  page_count == (last_frame - first_frame) \div S + 1
                  frames == [i \in 1..page_count |-> first_frame + (i - 1) * S]
                  mapped == {om.calls[k].frame : k \in DOMAIN om.calls}
              IN [om EXCEPT !.done = @ + 1,
                            !.calls = @ \o [i \in 1..page_count |->
                                               [page |-> hhdm_offset + frames[i],
                                                frame |-> frames[i]]],
                            !.panicked = \E i \in 1..page_count : frames[i] \in mapped,
                            !.last_mapped_address = last_frame + (S - 1)])

offsetFrame == <<map, returned, epoch, phys_ops, virtVars, taskVars, nmiVars, tableVars,
                 procVars, codecVars, lockVars, loggerVars, loaderVars, segment_copy,
                 cut_result>>

InitOffset ==
    /\ memory_map \in OffsetBootMaps
    /\ \E S \in {Size2MiB, Size1GiB} :
          offset_mapping = [NoOffsetMapping EXCEPT !.size = S]
    /\ segment_copy = NoSegmentCopy
    /\ cut_result = NoCut
    /\ PhysIdle
    /\ VirtIdle
    /\ TaskIdle
    /\ NmiIdle
    /\ TableIdle
    /\ ProcIdle
    /\ CodecIdle
    /\ LockIdle
    /\ LoggerIdle
    /\ LoaderIdle

\* one turn of `for entry in memory_map.entries()`
OffsetMapNext ==
    /\ ~offset_mapping.panicked
    /\ offset_mapping.done < Len(memory_map)
    /\ offset_mapping' = OffsetMapEntry(offset_mapping, memory_map[offset_mapping.done + 1])
    /\ UNCHANGED <<memory_map, offsetFrame>>

NextOffset == OffsetMapNext

SpecOffset == InitOffset /\ [][NextOffset]_vars

---------------------------------------------------------------------------
(* CutRange::cut (cut_range.rs), on a u64 of three bits: every pair of     *)
(* non-empty inclusive ranges, and both builds of the arithmetic: with     *)
(* overflow checks an overflowing + or - panics, without them it wraps     *)

\* u64::MAX
U64Max == 7

\* x + 1 and x - 1 as the build without overflow checks computes them
WrappingAdd1(x) == (x + 1) % (U64Max + 1)
WrappingSub1(x) == (x + U64Max) % (U64Max + 1)

\* RangeInclusive::contains
Contains(range, x) == range.start <= x /\ x <= range.end

\* the non-empty ranges start..=end
Ranges == {range \in [start : 0..U64Max, end : 0..U64Max] : range.start <= range.end}

\* cut_range.rs:8-29: the ranges the iterator yields, and whether a + 1 or
\* a - 1 on the way overflowed
cut(self, cut_out) ==
    IF Contains(self, cut_out.start)
    THEN IF self.end < cut_out.end
         THEN [ranges |-> << RangeInclusive(self.start, WrappingSub1(cut_out.start)),
                             RangeInclusive(WrappingAdd1(cut_out.end), self.end) >>,
               overflow |-> cut_out.start = 0 \/ cut_out.end = U64Max]
         ELSE IF cut_out.start >= 1
              THEN [ranges |-> << RangeInclusive(self.start, cut_out.start - 1) >>,
                    overflow |-> FALSE]
              ELSE [ranges |-> << >>, overflow |-> FALSE]
    ELSE IF Contains(self, cut_out.end)
    THEN [ranges |-> << RangeInclusive(WrappingAdd1(cut_out.end), self.end) >>,
          overflow |-> cut_out.end = U64Max]
    ELSE [ranges |-> << self >>, overflow |-> FALSE]

cutFrame == <<physVars, virtVars, taskVars, nmiVars, tableVars, procVars, codecVars,
              lockVars, loggerVars, loaderVars, segment_copy, offset_mapping>>

InitCut ==
    /\ \E self \in Ranges, cut_out \in Ranges :
          cut_result = [NoCut EXCEPT !.self = self, !.cut_out = cut_out]
    /\ segment_copy = NoSegmentCopy
    /\ offset_mapping = NoOffsetMapping
    /\ memory_map = << >>
    /\ PhysIdle
    /\ VirtIdle
    /\ TaskIdle
    /\ NmiIdle
    /\ TableIdle
    /\ ProcIdle
    /\ CodecIdle
    /\ LockIdle
    /\ LoggerIdle
    /\ LoaderIdle

\* self.cut(&cut_out), collected
Cut(overflow_checks) ==
    /\ ~cut_result.done
    /\ \E r \in {cut(cut_result.self, cut_result.cut_out)} :
          cut_result' = [cut_result EXCEPT
                            !.result = IF r.overflow /\ overflow_checks
                                       THEN << >> ELSE r.ranges,
                            !.overflowed = r.overflow,
                            !.panicked = r.overflow /\ overflow_checks,
                            !.done = TRUE]
    /\ UNCHANGED cutFrame

NextCut == \E overflow_checks \in BOOLEAN : Cut(overflow_checks)

SpecCut == InitCut /\ [][NextCut]_vars

---------------------------------------------------------------------------
(* C1: no two frames returned by allocate_frame_with_type share a physical *)
(* address, unless remove_user_mode_memory ran between the two calls and   *)
(* the earlier frame had a UsedByUserMode type.                            *)

FramesOverlap(f, g) ==
    Overlap(f.start, f.start + f.size - 1, g.start, g.start + g.size - 1)

EntryIntervals(mm, types) ==
    {[start |-> mm[i].base, end |-> mm[i].base + mm[i].length - 1] :
        i \in {k \in 1..Len(mm) : mm[k].entry_type \in types}}

AllEntryTypes == {memory_map[i].entry_type : i \in 1..Len(memory_map)}

NoOverlapInMap ==
    \A a, b \in map : a # b => ~Overlap(a.start, a.end, b.start, b.end)

C3_PartitionsTrackedEntries ==
    /\ NoOverlapInMap
    /\ Addrs(map) = Addrs(EntryIntervals(memory_map, {"USABLE", "BOOTLOADER_RECLAIMABLE"}))

\* the claim as written: the union is the whole bootloader map
C3_PartitionsWholeBootMap ==
    /\ NoOverlapInMap
    /\ Addrs(map) = Addrs(EntryIntervals(memory_map, AllEntryTypes))

\* frames of two types allocated, then user memory removed again
C3_Witness ==
    /\ epoch >= 1
    /\ Len(returned) >= 2
    /\ \E i \in 1..Len(returned) : returned[i].type \in UserModeTypes
    /\ \E iv \in map : iv.type = "Usable"

(* C2: the AllocatedPages ranges that are still allocated are pairwise     *)
(* disjoint, disjoint from the ranges reserved at boot, and lie entirely   *)
(* in the higher half.                                                     *)

C2_AllocatedPagesDisjoint ==
    /\ \A h, g \in allocated : h # g => ~Overlap(h.start, h.end, g.start, g.end)
    /\ \A h \in allocated : ~SetOverlaps(boot_set, h.start, h.end)
    /\ \A h \in allocated : h.start >= HigherHalfStart /\ h.end <= AddrMax

\* a live handle on addresses that an earlier handle gave back
C2_Witness ==
    \E h \in allocated : \E f \in freed : Overlap(h.start, h.end, f.start, f.end)

(* C4: a syscall that takes a user buffer touches user memory only if      *)
(* every byte of the buffer is recorded in the task's map with the needed  *)
(* permission; otherwise the task is terminated and nothing is touched.    *)

BufferSyscalls ==
    {"SyscallLog", "SyscallReadKeyboard", "SyscallReadMouse", "SyscallReadEventStream",
     "SyscallWaitUntilEvent"}

RangePermitted ==
    \A a \in last.range :
        IF last.needs_write THEN UserCanWrite(mapped_virtual_memory, a)
        ELSE UserCanRead(mapped_virtual_memory, a)

\* C4: memory is touched only when the whole buffer is permitted, and a
\* buffer that is not permitted ends in termination with nothing touched
C4_BufferAccessOnlyWhenPermitted ==
    last.op \in BufferSyscalls =>
        /\ last.access # {} => RangePermitted
        /\ ~RangePermitted => last.outcome = "Terminate" /\ last.access = {}

(* C5: nothing user mode can do (a syscall with any id and arguments)      *)
(* makes the kernel panic.                                                 *)

C5_KernelNeverPanics == ~kernel_panicked

(* C7: wait_until_event on a non-empty, mapped array of known ids: if a    *)
(* listed stream is pending it returns at once with the pending listed ids *)
(* in listed order, their flags cleared and nothing else changed;          *)
(* otherwise the task is Waiting with the registers and the slice saved.   *)

WaitListed == ArrayAt(last.pre_mem, last.pointer, last.len)

\* the call passes the handler's validation
WaitCallValid ==
    /\ last.len >= 1
    /\ last.pointer % size_of_u64 = 0
    /\ \A a \in last.range : UserCanWrite(mapped_virtual_memory, a)
    /\ Range(WaitListed) \subseteq {KEYBOARD_EVENT_ID, MOUSE_EVENT_ID}

WaitListedPending ==
    {id \in DOMAIN last.pre_streams :
        last.pre_streams[id].pending_event /\ id \in Range(WaitListed)}

\* the listed ids that are pending, each at its first place in the array
WaitDelivered ==
    LET first(i) == \A j \in 1..(i - 1) : WaitListed[j] # WaitListed[i]
        places == {i \in 1..last.len : WaitListed[i] \in WaitListedPending /\ first(i)}
        order == SortedSeq(places)
    IN [k \in 1..Len(order) |-> WaitListed[order[k]]]

\* C7: the immediate return delivers exactly the pending listed streams;
\* with none pending the task is Waiting
C7_WaitReturnsPendingOrWaits ==
    (last.op = "SyscallWaitUntilEvent" /\ WaitCallValid) =>
        IF WaitListedPending # {}
        THEN /\ last.outcome = "Return"
             /\ task_state = Running
             /\ last.output = Cardinality(WaitListedPending)
             /\ ArrayAt(user_mem, last.pointer, last.output) = WaitDelivered
             /\ DOMAIN event_streams = DOMAIN last.pre_streams
             /\ \A id \in DOMAIN event_streams :
                   /\ event_streams[id].queue = last.pre_streams[id].queue
                   /\ event_streams[id].source = last.pre_streams[id].source
                   /\ event_streams[id].pending_event =
                         (last.pre_streams[id].pending_event /\ id \notin WaitListedPending)
        ELSE /\ last.outcome = "Wait"
             /\ task_state.kind = "Waiting"
             /\ task_state.events = WaitListed
             /\ task_state.saved_regs = last.regs
             /\ task_state.events_slice = [pointer |-> last.pointer, len |-> last.len]
             /\ event_streams = last.pre_streams
             /\ user_mem = last.pre_mem

\* an immediate return that delivers one stream and leaves another pending
C7_Witness ==
    /\ last.op = "SyscallWaitUntilEvent" /\ WaitCallValid
    /\ last.outcome = "Return" /\ last.output = 1
    /\ \E id \in DOMAIN event_streams : event_streams[id].pending_event

(* C6: a PS/2 interrupt whose source matches a stream the waiting task     *)
(* listed resumes the task: Running, count = number of listed streams of   *)
(* the source, their ids at the front of the array, their pending_event    *)
(* flags false.                                                            *)

\* the streams of the interrupt's source that the waiting task listed
ListedOfSource ==
    {id \in DOMAIN last.pre_streams :
        /\ last.pre_streams[id].source = last.source
        /\ id \in Range(ArrayAt(last.pre_mem, last.pointer, last.len))}

InterruptResumes ==
    last.op = "ps2_interrupt" /\ last.pre_state.kind = "Waiting" /\ ListedOfSource # {}

\* the part of C6 about the state, the count and the array
C6_ResumeCountAndIds ==
    InterruptResumes =>
        /\ last.outcome = "RestoreSyscall"
        /\ task_state = Running
        /\ last.output = Cardinality(ListedOfSource)
        /\ Range(ArrayAt(user_mem, last.pointer, last.output)) = ListedOfSource

\* C6: the resume delivers the listed streams of the source and leaves
\* their pending_event flags false
C6_ResumeDeliversListedStreams ==
    /\ C6_ResumeCountAndIds
    /\ InterruptResumes => \A id \in ListedOfSource : ~event_streams[id].pending_event

(* C8: a PS/2 interrupt that does not resume the task leaves task.state    *)
(* alone, appends the byte to every stream of its source and sets their    *)
(* pending_event, changes no other stream, and returns to the interrupted  *)
(* context.                                                                *)

C8_NonResumingInterruptFrame ==
    (last.op = "ps2_interrupt" /\ ~InterruptResumes) =>
        /\ last.outcome = "RestoreInterrupted"
        /\ task_state = last.pre_state
        /\ DOMAIN event_streams = DOMAIN last.pre_streams
        /\ \A id \in DOMAIN event_streams :
              LET pre == last.pre_streams[id]
                  cur == event_streams[id]
              IN IF pre.source = last.source
                 THEN /\ cur.pending_event
                      /\ cur.source = pre.source
                      /\ Len(cur.queue) > 0 /\ cur.queue[Len(cur.queue)] = last.data
                      /\ Len(pre.queue) < QUEUE_CAPACITY => cur.queue = Append(pre.queue, last.data)
                 ELSE cur = pre

(* C9: a stream's bytes are read back in the order they were pushed, its   *)
(* queue never holds more than 64 bytes, and a byte that arrives at a full *)
(* queue replaces the oldest one.                                          *)

ReadSyscalls == {"SyscallReadKeyboard", "SyscallReadMouse", "SyscallReadEventStream"}

\* C9: capacity 64, reads in push order, a push on a full queue drops the
\* oldest byte and keeps the new one
C9_QueueFifoDropsOldest ==
    /\ \A id \in DOMAIN event_streams : Len(event_streams[id].queue) <= QUEUE_CAPACITY
    /\ (last.op \in ReadSyscalls /\ last.outcome = "Return" /\ last.id \in DOMAIN last.pre_streams) =>
          LET q == last.pre_streams[last.id].queue
          IN /\ last.bytes = SubSeq(q, 1, last.output)
             /\ event_streams[last.id].queue = SubSeq(q, last.output + 1, Len(q))
    /\ last.op = "ps2_interrupt" =>
          \A id \in DOMAIN event_streams :
              LET q == last.pre_streams[id].queue
              IN last.pre_streams[id].source = last.source =>
                    event_streams[id].queue =
                        IF Len(q) < QUEUE_CAPACITY THEN Append(q, last.data)
                        ELSE Append(Tail(q), last.data)

(* C10: an NMI is sent only to a CPU that has loaded its IDT; a CPU whose  *)
(* state was swapped to KernelPanicked before its own compare_exchange is  *)
(* never sent an NMI and halts when that compare_exchange fails.           *)

C10_NmiOnlyAfterIdtLoad ==
    /\ \A c \in nmi_sent \cup send_to : idt_loaded[c]
    /\ ~triple_fault
    /\ \A c \in swapped_early :
          /\ c \notin nmi_sent \cup send_to
          /\ cpu_pc[c] \in {"start", "loaded", "halted"}

\* one peer was sent an NMI, another was swapped before its compare_exchange
\* and has halted on its failure
C10_Witness ==
    /\ nmi_sent # {}
    /\ \E c \in swapped_early : idt_loaded[c] /\ cpu_pc[c] = "halted"

(* C11: if any CPU panics, every other CPU eventually halts with           *)
(* interrupts disabled, whatever stage of bring-up it is in: it receives   *)
(* an NMI and halts in nmi_handler, or it observes KernelPanicked in       *)
(* idt::init and halts.                                                    *)

C11_PanicHaltsEveryCpu ==
    did_panic ~> (\A c \in Cpus : cpu_pc[c] = "halted")

(* C12: at most one panic ever wins the DID_PANIC compare-exchange; only   *)
(* that CPU swaps peer states, sends NMIs and logs a message; every later  *)
(* panic on any CPU, a second panic on the first CPU included, halts       *)
(* without logging and without sending NMIs.                               *)

C12_OnePanicWins ==
    /\ Len(panics.won) <= 1
    /\ Len(panics.logged) <= 1
    /\ panics.swapped \cup panics.sent \cup Range(panics.logged) \subseteq Range(panics.won)
    /\ \A i \in 1..Len(panics.lost) :
          /\ cpu_pc[panics.lost[i]] = "halted"
          /\ panics.won # << >>
    /\ (did_panic <=> panics.won # << >>)

\* one CPU won and sent an NMI; a peer panicked later and so did the winner
\* inside rust_panic
C12_Witness ==
    /\ Len(panics.won) = 1
    /\ panics.sent # {}
    /\ \E i, j \in 1..Len(panics.lost) :
          /\ panics.lost[i] = panics.won[1]
          /\ panics.lost[j] # panics.won[1]

(* C19: wait_until_event terminates the task, without entering Waiting    *)
(* and without delivering any id, whenever an id of the array does not     *)
(* name an event stream the task owns, a device id the task never          *)
(* subscribed to included.                                                 *)

\* the call reaches the loop over the ids, and one of them names no stream
\* of the task
WaitListsUnownedStream ==
    /\ last.op = "SyscallWaitUntilEvent"
    /\ last.len >= 1
    /\ last.pointer % size_of_u64 = 0
    /\ \A a \in last.range : UserCanWrite(mapped_virtual_memory, a)
    /\ \E i \in 1..last.len : WaitListed[i] \notin DOMAIN last.pre_streams

C19_WaitUnownedStreamTerminates ==
    WaitListsUnownedStream =>
        /\ last.outcome = "Terminate"
        /\ task_state.kind # "Waiting"
        /\ event_streams = last.pre_streams
        /\ user_mem = last.pre_mem

(* C20: ReadKeyboard, ReadMouse and ReadEventStream on a subscribed stream *)
(* with a writable buffer of length n never block: they remove the         *)
(* min(n, queued) oldest bytes, write them in FIFO order to the buffer,    *)
(* return that count and leave the rest queued; with n = 0 they return 0   *)
(* and change nothing.                                                     *)

ReadOnSubscribedValid ==
    /\ last.op \in ReadSyscalls
    /\ last.id \in DOMAIN last.pre_streams
    /\ \A a \in last.range : UserCanWrite(mapped_virtual_memory, a)

C20_ReadDrainsOldest ==
    ReadOnSubscribedValid =>
        LET q == last.pre_streams[last.id].queue
            count == Min(last.len, Len(q))
        IN /\ last.outcome = "Return"
           /\ task_state = last.pre_state
           /\ last.output = count
           /\ last.bytes = SubSeq(q, 1, count)
           /\ event_streams =
                 [last.pre_streams EXCEPT ![last.id].queue = SubSeq(q, count + 1, Len(q))]
           /\ last.len = 0 => event_streams = last.pre_streams /\ last.access = {}

(* C18: building the syscall handler table panics if two registered       *)
(* handlers have the same id, and otherwise yields a table with exactly    *)
(* one entry per registered handler, keyed by that handler's id.           *)

\* the loop of SyscallHandlers::default() has ended
TableBuilt ==
    \/ syscall_handlers.panicked
    \/ syscall_handlers.next > Len(syscall_handlers.handlers)

HasDuplicateIds(l) == \E i, j \in 1..Len(l) : i # j /\ l[i].id = l[j].id

C18_TableRejectsDuplicateIds ==
    LET l == syscall_handlers.handlers
        t == syscall_handlers.map
    IN TableBuilt =>
          /\ syscall_handlers.panicked <=> HasDuplicateIds(l)
          /\ ~syscall_handlers.panicked =>
                /\ DOMAIN t = {l[i].id : i \in 1..Len(l)}
                /\ Cardinality(DOMAIN t) = Len(l)
                /\ \A i \in 1..Len(l) : t[l[i].id] = l[i]

\* a list with SyscallAllocHandler and SyscallAlloc2Handler has panicked,
\* with the handlers before the second of them in the map
C18_Witness ==
    /\ syscall_handlers.panicked
    /\ Len(syscall_handlers.handlers) = MaxHandlers
    /\ Cardinality(DOMAIN syscall_handlers.map) >= 2

\* a list without a collision was built in full
C18_WitnessBuilt ==
    /\ ~syscall_handlers.panicked
    /\ Len(syscall_handlers.handlers) = MaxHandlers
    /\ syscall_handlers.next > MaxHandlers


---------------------------------------------------------------------------
(* C13: when the task dies (Exit, a user page fault that does not grow the *)
(* stack, or a stack growth that fails), the handler itself completes the  *)
(* termination: TASK is None, no physical interval is tagged              *)
(* UsedByUserMode any more, and user code does not run again.             *)

\* the handler that just ran was the death of the task
TaskDied ==
    \/ proc_last.op = "exit"
    \/ proc_last.op = "page_fault" /\ proc_last.outcome # "Resume"

C13_DeathReclaimsTask ==
    TaskDied =>
        /\ ~task_some
        /\ ~\E iv \in map : iv.type \in UserModeTypes
        /\ cpu_mode # "user"

(* C14: a user page fault grows the stack exactly when the address lies in *)
(* the one page below the stack bottom INITIAL_RSP - stack_size: then one  *)
(* new Stack frame is mapped at that page, stack_size grows by one page    *)
(* size and the task resumes (or the frame cannot be had); a fault on any  *)
(* other page leaves stack_size alone and ends the task.                   *)

\* the page immediately below the stack bottom that the fault found
BelowStackBottom(addr, size) ==
    /\ INITIAL_RSP - size - ExtendBy <= addr
    /\ addr <= INITIAL_RSP - size - 1

C14_GrowthOnlyBelowStackBottom ==
    proc_last.op = "page_fault" =>
        IF BelowStackBottom(proc_last.addr, proc_last.pre_stack_size)
        THEN \/ /\ proc_last.outcome = "Resume"
                /\ stack_size = proc_last.pre_stack_size + ExtendBy
                /\ \E pg \in user_pages :
                      /\ user_pages = proc_last.pre_pages \cup {pg}
                      /\ pg \notin proc_last.pre_pages
                      /\ pg.kind = "Stack" /\ pg.size = ExtendBy
                      /\ pg.start = INITIAL_RSP - stack_size
                      /\ \E iv \in map : /\ iv.type = "UsedByUserMode(Stack)"
                                         /\ iv.start <= pg.frame
                                         /\ pg.frame + (ExtendBy - 1) <= iv.end
             \/ /\ proc_last.outcome = "Halt"
                /\ proc_last.result = "OutOfMemory"
                /\ stack_size = proc_last.pre_stack_size
        ELSE /\ proc_last.outcome = "Halt"
             /\ stack_size = proc_last.pre_stack_size
             /\ user_pages = proc_last.pre_pages

(* C15: the region a successful Alloc returns is disjoint from every user  *)
(* page mapped before the call (segments, stack, earlier Alloc regions, a  *)
(* framebuffer) and from every recorded interval, and ends below           *)
(* 0x8000_0000_0000.                                                       *)

AllocReturnedOk == proc_last.op = "alloc" /\ proc_last.result = "Ok"

C15_AllocRegionIsFresh ==
    AllocReturnedOk =>
        /\ proc_last.out_len >= 1
        /\ proc_last.ptr + proc_last.out_len - 1 < INITIAL_RSP
        /\ \A pg \in proc_last.pre_pages :
              ~Overlap(pg.start, pg.start + (pg.size - 1),
                       proc_last.ptr, proc_last.ptr + proc_last.out_len - 1)
        /\ ~SetOverlaps(proc_last.pre_mapped, proc_last.ptr,
                        proc_last.ptr + proc_last.out_len - 1)

\* an Alloc succeeded in an address space that already had a framebuffer
\* and an earlier Alloc region
C15_Witness ==
    /\ AllocReturnedOk
    /\ \E pg \in proc_last.pre_pages : pg.kind = "FrameBuffer"
    /\ \E pg \in proc_last.pre_pages : pg.kind = "Heap"
    /\ \E pg \in user_pages \ proc_last.pre_pages :
          pg.kind = "Heap" /\ pg.start = proc_last.ptr

(* C16: for every len >= 1 and every power-of-two align no sum or product  *)
(* of Alloc wraps around, and a successful Alloc returns ptr # 0, a        *)
(* multiple of max(align, page size), with a length that is a multiple of  *)
(* the page size and >= len; the page size is 2 MiB for len >= 2 MiB and   *)
(* 4 KiB otherwise.                                                        *)

AllocPageSize(len) == IF len >= Size2MiB THEN Size2MiB ELSE Size4KiB

C16_AllocArithmetic ==
    (/\ proc_last.op = "alloc"
     /\ proc_last.len >= 1
     /\ IsPowerOfTwo(proc_last.align)) =>
        /\ ~proc_last.overflowed
        /\ proc_last.result = "Ok" =>
              /\ proc_last.ptr # 0
              /\ proc_last.ptr % Max(proc_last.align, AllocPageSize(proc_last.len)) = 0
              /\ proc_last.out_len % AllocPageSize(proc_last.len) = 0
              /\ proc_last.out_len >= proc_last.len
              /\ proc_last.page_size = AllocPageSize(proc_last.len)

(* C17: a syscall with an id that is not in the table, or with input words *)
(* its decoder refuses, ends the task: the call does not return to user    *)
(* mode, no handler body runs, and the kernel keeps running.               *)

RejectedSyscall ==
    \/ proc_last.op = "invalid_id"
    \/ proc_last.op = "alloc" /\ proc_last.result = "DecodeError"

C17_RejectedSyscallEndsTask ==
    RejectedSyscall =>
        /\ cpu_mode # "user"
        /\ user_pages = proc_last.pre_pages
        /\ mapped_virtual_memory = proc_last.pre_mapped
        /\ map = proc_last.pre_map
        /\ ~kernel_panicked

---------------------------------------------------------------------------
(* C21: allocate_frame_with_type of size S returns the S-aligned frame     *)
(* with the lowest start that lies inside one Usable interval and gives    *)
(* exactly the addresses of that frame the requested tag; it returns None  *)
(* and leaves the map as it was exactly when no Usable interval holds an   *)
(* S-aligned frame.                                                        *)

\* the physical addresses up to the end of the bootloader's last entry
PhysicalAddrs ==
    0 .. (CHOOSE top \in {memory_map[i].base + memory_map[i].length :
                            i \in 1..Len(memory_map)} :
            \A i \in 1..Len(memory_map) : memory_map[i].base + memory_map[i].length <= top)

\* the tag a map gives an address
TagAt(m, a) ==
    IF \E iv \in m : iv.start <= a /\ a <= iv.end
    THEN (CHOOSE iv \in m : iv.start <= a /\ a <= iv.end).type
    ELSE "Untracked"

\* the starts of the S-aligned frames that lie inside one Usable interval
AlignedUsableFrames(m, S) ==
    {a \in PhysicalAddrs :
        /\ a % S = 0
        /\ \E iv \in m : iv.type = "Usable" /\ iv.start <= a /\ a + (S - 1) <= iv.end}

\* what a call with size S and tag t has to do to the map and return
LowestFrameAllocated(S, t) ==
    LET frames == AlignedUsableFrames(map, S)
    IN IF frames = {}
       THEN map' = map /\ returned' = returned
       ELSE LET lowest == CHOOSE a \in frames : \A b \in frames : a <= b
            IN /\ returned' = Append(returned, [start |-> lowest, size |-> S,
                                                type |-> t, epoch |-> epoch])
               /\ \A a \in PhysicalAddrs :
                     TagAt(map', a) = IF lowest <= a /\ a <= lowest + (S - 1)
                                      THEN t ELSE TagAt(map, a)

C21_LowestAlignedFrame ==
    [][\A S \in PageSizes, t \in AllocTypes :
          AllocateFrame(S, t) => LowestFrameAllocated(S, t)]_vars

\* a 2 MiB frame was returned that starts above the start of the Usable
\* interval it was cut from, and one call returned None
C21_Witness ==
    /\ \E i \in 1..Len(returned) :
          /\ returned[i].size = Size2MiB
          /\ \E iv \in map : iv.type = "Usable" /\ iv.end = returned[i].start - 1
    /\ phys_ops > Len(returned) + epoch

---------------------------------------------------------------------------
(* C22: remove_user_mode_memory gives every address tagged UsedByUserMode  *)
(* the tag Usable and leaves the tag of every other address as it was;     *)
(* afterwards no interval is UsedByUserMode and no two touching intervals  *)
(* carry the same tag.                                                     *)

\* no two intervals of the map that touch carry the same tag
TouchingIntervalsDiffer(m) ==
    \A a, b \in m : a.end + 1 = b.start => a.type # b.type

UserModeMemoryRemoved ==
    /\ \A a \in PhysicalAddrs :
          TagAt(map', a) = IF TagAt(map, a) \in UserModeTypes THEN "Usable"
                           ELSE TagAt(map, a)
    /\ ~\E iv \in map' : iv.type \in UserModeTypes
    /\ TouchingIntervalsDiffer(map')

C22_RemoveRetagsUserMemory ==
    [][RemoveUserModeMemory => UserModeMemoryRemoved]_vars

\* remove_user_mode_memory ran on a map that held frames of two user tags
\* and a frame of the kernel, which is still there
C22_Witness ==
    /\ epoch >= 1
    /\ \E i, j \in 1..Len(returned) :
          /\ returned[i].epoch = 0 /\ returned[j].epoch = 0
          /\ returned[i].type \in UserModeTypes /\ returned[j].type \in UserModeTypes
          /\ returned[i].type # returned[j].type
    /\ \E iv \in map : iv.type = "UsedByKernel(PageTables)"
    /\ ~\E iv \in map : iv.type \in UserModeTypes

---------------------------------------------------------------------------
(* C23: an AllocatedPages handle that goes out of scope without            *)
(* unmap_and_deallocate (in particular one with no page mapped) releases   *)
(* its range: the range is no longer in the reserved set.                  *)

C23_DropReleasesRange ==
    [][\A h \in allocated : DropHandle(h) => ~SetOverlaps(set', h.start, h.end)]_vars

---------------------------------------------------------------------------
(* C24: between a successful TakeFrameBuffer and the ReleaseFrameBuffer    *)
(* that matches it the framebuffer has one owner: every further            *)
(* TakeFrameBuffer returns InUse and the kernel logger does not draw to    *)
(* the framebuffer.                                                        *)

\* the logger has a display to draw to
LoggerDraws == frame_buffer.len > 0 /\ ~frame_buffer.taken

C24_OneFrameBufferOwner ==
    /\ frame_buffer.held => ~LoggerDraws
    /\ (proc_last.op = "take_frame_buffer" /\ proc_last.pre_frame_buffer.held)
          => proc_last.result = "InUse" /\ user_pages = proc_last.pre_pages

\* a second TakeFrameBuffer while the first is not released
C24_Witness ==
    /\ proc_last.op = "take_frame_buffer"
    /\ proc_last.pre_frame_buffer.held
    /\ frame_buffer.held
    /\ \E pg \in user_pages : pg.kind = "FrameBuffer"

(* C25: ReleaseFrameBuffer reverses the take: after a successful           *)
(* TakeFrameBuffer and a ReleaseFrameBuffer the task no longer owns the    *)
(* framebuffer, and the next TakeFrameBuffer does not return InUse.        *)

C25_ReleaseReversesTake ==
    /\ (proc_last.op = "release_frame_buffer" /\ proc_last.pre_frame_buffer.held)
          => ~\E pg \in user_pages : pg.kind = "FrameBuffer"
    /\ (/\ proc_last.op = "take_frame_buffer"
        /\ ~proc_last.pre_frame_buffer.held
        /\ proc_last.pre_frame_buffer.len > 0)
          => proc_last.result # "InUse"

---------------------------------------------------------------------------
(* C26: Exists(id) returns true exactly when id is the id of a registered  *)
(* handler (true for the id of Exit when Exit is registered, false for 0)  *)
(* and changes no task, memory or event-stream state.                      *)

\* the ids of the handlers the table was built from
RegisteredIds ==
    {syscall_handlers.handlers[i].id : i \in 1..Len(syscall_handlers.handlers)}

C26_ExistsIsPureLookup ==
    [][\A id \in ExistsIds :
          SyscallExists(id) =>
             /\ syscall_handlers'.exists.output = (id \in RegisteredIds)
             /\ id = 0 => ~syscall_handlers'.exists.output
             /\ syscall_handlers'.map = syscall_handlers.map
             /\ UNCHANGED <<physVars, virtVars, taskVars, procVars, extVars>>]_vars

\* Exists answered true for the id of Exit on a table of three or more
\* handlers
C26_Witness ==
    /\ syscall_handlers.exists.called
    /\ syscall_handlers.exists.id = SyscallExitId
    /\ syscall_handlers.exists.output
    /\ Len(syscall_handlers.handlers) >= 3

\* C27: for every syscall S, the kernel's try_decode_input of the input words
\* the user's encode_input produced gives back the input, and the user's
\* decode_output of the seven words the kernel's encode_output produced gives
\* back the output; the id the kernel dispatches on is the id word the user
\* placed; no input outgrows six words and no output seven (no unwrap() of
\* encode_into_slice fails).
C27_CodecRoundTrip ==
    /\ ~codec.panicked
    /\ codec.dir = "input"
          => /\ Len(codec.words) = 1 + InputWords
             /\ codec.words[1] = Syscalls[codec.syscall].id
             /\ codec.id = codec.words[1]
             /\ codec.decoded = [ok |-> TRUE, variant |-> codec.variant,
                                 fields |-> codec.fields]
    /\ codec.dir = "output"
          => /\ Len(codec.words) = OutputWords
             /\ codec.decoded = [ok |-> TRUE, variant |-> codec.variant,
                                 fields |-> codec.fields]

\* the largest output, Ok(SyscallTakeFrameBufferOutput), came back with
\* every field at its greatest value
C27_Witness ==
    /\ codec.dir = "output"
    /\ Syscalls[codec.syscall].name = "SyscallTakeFrameBuffer"
    /\ codec.variant = 0
    /\ \A i \in DOMAIN codec.fields : codec.fields[i] > 0
    /\ codec.decoded.ok
    /\ codec.decoded.fields = codec.fields

\* a SubscribeToKeyboard or SubscribeToMouse call returned a stream id
SubscribeSucceeded ==
    /\ last.op \in {"SyscallSubscribeToKeyboard", "SyscallSubscribeToMouse"}
    /\ last.outcome = "Return"
    /\ last.output # 0

C29_Ps2TryLocksSucceed ==
    \A c \in DOMAIN cpu_ctx :
        /\ cpu_ctx[c].failed.path # "ps2_interrupt_handler"
        /\ cpu_ctx[c].rflags_if
              => \A i \in DOMAIN cpu_ctx[c].held :
                     cpu_ctx[c].held[i] \notin {"task", "local_apic"}
        /\ (/\ cpu_ctx[c].path = "ps2_interrupt_handler"
            /\ cpu_ctx[c].pc \in DOMAIN ps2_interrupt_handler_locks
            /\ ps2_interrupt_handler_locks[cpu_ctx[c].pc].op = "try_lock")
              => lock_holder[LockId(ps2_interrupt_handler_locks[cpu_ctx[c].pc].lock, c)] = 0

\* the handler interrupted the hlt loop of a waiting task and holds both locks
C29_Witness ==
    \E c \in DOMAIN cpu_ctx :
        /\ cpu_ctx[c].path = "ps2_interrupt_handler"
        /\ cpu_ctx[c].interrupted.path = "hlt"
        /\ cpu_ctx[c].held = <<"local_apic", "task">>
        /\ lock_holder[LockId("task", c)] = c
        /\ lock_holder[LockId("local_apic", c)] = c

\* the order the specification gives the four spinlocks
LockRank(l) ==
    CASE l = "physical_memory" -> 1
      [] l = "virtual_memory" -> 2
      [] l = "task" -> 3
      [] l = "local_apic" -> 4

\* C30: a kernel path that holds more than one of the physical-memory,
\* virtual-memory, Task and Local-APIC spinlocks took them in the order
\* physical, virtual, task, local-apic.
C30_LockOrder ==
    \A c \in DOMAIN cpu_ctx :
        \A i, j \in DOMAIN cpu_ctx[c].held :
            i < j => LockRank(cpu_ctx[c].held[i]) < LockRank(cpu_ctx[c].held[j])

UserMapped(addr) ==
    \E pg \in user_pages : pg.start <= addr /\ addr <= pg.start + (pg.size - 1)

\* some recorded range holds the whole page
Recorded(pg) ==
    \E iv \in mapped_virtual_memory :
        iv.start <= pg.start /\ pg.start + (pg.size - 1) <= iv.end

C32_RecordMatchesPageTable ==
    (task_some /\ cpu_mode = "user") =>
        /\ \A iv \in mapped_virtual_memory : \A addr \in iv.start..iv.end : UserMapped(addr)
        /\ \A pg \in user_pages : pg.kind \in {"Elf", "Stack", "Heap"} => Recorded(pg)

(* C33: once the first panicking CPU has signalled its peers it eventually *)
(* writes its panic message to the kernel logger and then halts for good,  *)
(* in every interleaving, also when a peer was stopped by the NMI in the   *)
(* middle of logging.                                                      *)

UserRegisterFile(token) ==
    LET base == IF token = "regs_a" THEN 100 ELSE 200
    IN [rsp |-> base + 1, rip |-> base + 2, rflags |-> base + 3, rbp |-> base + 4,
        rbx |-> base + 5, r12 |-> base + 6, r13 |-> base + 7, r14 |-> base + 8,
        r15 |-> base + 9, rcx |-> base + 10, r11 |-> base + 11, rdi |-> base + 12,
        rsi |-> base + 13, rdx |-> base + 14, r10 |-> base + 15, r8 |-> base + 16,
        r9 |-> base + 17, rax |-> base + 18]

\* the registers of the kernel when the interrupt handler resumes the task
KernelRegisterFile ==
    [rsp |-> 1, rip |-> 2, rflags |-> 3, rbp |-> 4, rbx |-> 5, r12 |-> 6, r13 |-> 7,
     r14 |-> 8, r15 |-> 9, rcx |-> 10, r11 |-> 11, rdi |-> 12, rsi |-> 13, rdx |-> 14,
     r10 |-> 15, r8 |-> 16, r9 |-> 17, rax |-> 18]

\* the SYSCALL instruction as syscalls::init sets it up: RCX and R11 take
\* the user's RIP and RFLAGS, RIP is loaded from LSTAR, IF is masked
SyscallInstruction(regs) ==
    [regs EXCEPT !.rcx = regs.rip, !.r11 = regs.rflags, !.rip = 0, !.rflags = 0]

\* push on a stack that grows down: the sequence starts at the lowest address
Push(stack, value) == <<value>> \o stack

\* the trampoline up to the call of the dispatcher: the user RSP, RCX and
\* R11, then the callee-saved registers; what lies at the stack pointer
\* then is a SyscallSavedRegs
SaveRegisters(regs) ==
    Push(Push(Push(Push(Push(Push(Push(Push(Push(<< >>,
        regs.rsp), regs.rcx), regs.r11), regs.rbp), regs.rbx), regs.r12), regs.r13),
        regs.r14), regs.r15)

\* SyscallSavedRegs::sysretq with the pops of rbx and rbp exchanged
sysretq_PopsExchanged(self, output, regs) ==
    [regs EXCEPT !.r15 = self[1], !.r14 = self[2], !.r13 = self[3], !.r12 = self[4],
                 !.rbp = self[5], !.rbx = self[6], !.r11 = self[7], !.rcx = self[8],
                 !.rsp = self[9], !.rip = self[8], !.rflags = self[7],
                 !.rdi = output[1], !.rsi = output[2], !.rdx = output[3],
                 !.r10 = output[4], !.r8 = output[5], !.r9 = output[6], !.rax = output[7]]

\* SyscallSavedRegs::sysretq: rsp points to self, nine pops, then SYSRETQ
\* loads RIP from RCX and RFLAGS from R11; the output is in its registers
sysretq(self, output, regs) ==
    [regs EXCEPT !.r15 = self[1], !.r14 = self[2], !.r13 = self[3], !.r12 = self[4],
                 !.rbx = self[5], !.rbp = self[6], !.r11 = self[7], !.rcx = self[8],
                 !.rsp = self[9], !.rip = self[8], !.rflags = self[7],
                 !.rdi = output[1], !.rsi = output[2], !.rdx = output[3],
                 !.r10 = output[4], !.r8 = output[5], !.r9 = output[6], !.rax = output[7]]

\* impl Syscall for SyscallWaitUntilEvent
SyscallWaitUntilEvent_S ==
    CHOOSE S \in Range(Syscalls) : S.name = "SyscallWaitUntilEvent"

\* the registers user mode continues with when the handler resumes the
\* task with the block saved under blockOf and this count
Resumed(blockOf, count) ==
    sysretq(SaveRegisters(SyscallInstruction(UserRegisterFile(blockOf))),
            encode_output(SyscallWaitUntilEvent_S, 0, <<count>>).words,
            KernelRegisterFile)

\* the registers the claim names are those of the SYSCALL's entry
RestoresEntry(entry, blockOf, count) ==
    LET u == UserRegisterFile(entry)
        r == Resumed(blockOf, count)
        output == <<r.rdi, r.rsi, r.rdx, r.r10, r.r8, r.r9, r.rax>>
    IN /\ r.rip = u.rip /\ r.rsp = u.rsp /\ r.rflags = u.rflags
       /\ r.rbp = u.rbp /\ r.rbx = u.rbx
       /\ r.r12 = u.r12 /\ r.r13 = u.r13 /\ r.r14 = u.r14 /\ r.r15 = u.r15
       /\ decode_output(SyscallWaitUntilEvent_S, output).ok
       /\ decode_output(SyscallWaitUntilEvent_S, output).fields = <<count>>

LoadFailed == loader.outcome \in {"Err", "Panic"}

C35_FailedLoadLeavesNothing ==
    LoadFailed =>
        /\ loader.outcome = "Err"
        /\ ~\E iv \in map : iv.type \in UserModeTypes
        /\ ~task_some
        /\ loader.cr3 = "kernel"

(* C36: for a segment with p_filesz <= p_memsz, after the copy the byte at *)
(* virtual address v of a mapped page is the file's byte v - p_vaddr when  *)
(* p_vaddr <= v < p_vaddr + p_filesz and 0 otherwise, for every offset of  *)
(* p_vaddr and of the segment's end inside their pages, and no slice index *)
(* leaves the frame or the segment data.                                   *)

\* the byte the loaded program must find at v
ExpectedByte(v) ==
    IF segment_copy.p_vaddr <= v /\ v < segment_copy.p_vaddr + segment_copy.filesz
    THEN SegmentData(segment_copy.filesz)[v - segment_copy.p_vaddr + 1]
    ELSE 0

C36_SegmentBytes ==
    /\ ~segment_copy.panicked
    /\ \A k \in DOMAIN segment_copy.frames : \A o \in 1..CopyPageSize :
          segment_copy.frames[k][o] =
             ExpectedByte(SegmentPages(segment_copy.p_vaddr, segment_copy.memsz)[k] + (o - 1))

\* a segment that starts inside its first page, whose file bytes end inside
\* a later page that is not the last, is copied to the end
C36_Witness ==
    /\ segment_copy.p_vaddr % CopyPageSize # 0
    /\ Len(segment_copy.frames) = 3
    /\ Len(segment_copy.frames) = Len(SegmentPages(segment_copy.p_vaddr, segment_copy.memsz))
    /\ segment_copy.frames[2][2] # 0
    /\ segment_copy.frames[2][CopyPageSize] = 0

(* C37: the offset mapping of the kernel's page table maps every huge      *)
(* frame that holds a byte of an offset-mappable entry, exactly once, at   *)
(* HHDM offset + physical address, and never hands the same huge frame to  *)
(* map_to twice.                                                           *)

\* the huge frames that hold a byte of the first n entries, where mappable
FramesOfEntries(n) ==
    {ContainingPage(a, offset_mapping.size) :
        a \in UNION {memory_map[i].base..(memory_map[i].base + memory_map[i].length - 1) :
                       i \in {k \in 1..n : memory_map[k].entry_type \in OffsetMapped}}}

C37_OffsetMappedOnce ==
    LET calls == offset_mapping.calls
    IN /\ ~offset_mapping.panicked
       /\ \A i, j \in DOMAIN calls : i # j => calls[i].frame # calls[j].frame
       /\ \A i \in DOMAIN calls : calls[i].page = hhdm_offset + calls[i].frame
       /\ {calls[i].frame : i \in DOMAIN calls} = FramesOfEntries(offset_mapping.done)

\* the loop is over; a later entry began in a huge frame an earlier entry
\* had mapped and reached beyond it, and two mappable entries overlapped
C37_Witness ==
    /\ offset_mapping.done = Len(memory_map)
    /\ offset_mapping.done >= 2
    /\ \E i \in 2..Len(memory_map) :
          /\ memory_map[i].entry_type \in OffsetMapped
          /\ memory_map[i - 1].entry_type \in OffsetMapped
          /\ ContainingPage(memory_map[i].base, offset_mapping.size)
                = ContainingPage(memory_map[i - 1].base + memory_map[i - 1].length - 1,
                                 offset_mapping.size)
          /\ ContainingPage(memory_map[i].base + memory_map[i].length - 1,
                            offset_mapping.size)
                > ContainingPage(memory_map[i].base, offset_mapping.size)
    /\ \E i, j \in 1..Len(memory_map) :
          /\ i # j /\ EntriesOverlap(memory_map[i], memory_map[j])
          /\ memory_map[i].entry_type = "FRAMEBUFFER"
          /\ memory_map[j].entry_type = "FRAMEBUFFER"

(* C38: the syscalls of the common crate whose handlers are registered in  *)
(* SYSCALL_HANDLERS have pairwise distinct ids, so that                    *)
(* SyscallHandlers::default() builds the table without the duplicate-id    *)
(* panic.                                                                  *)

C38_RegisteredIdsDistinct ==
    syscall_handlers.handlers = SYSCALL_HANDLERS =>
        /\ \A i, j \in 1..Len(SYSCALL_HANDLERS) :
              i # j => SYSCALL_HANDLERS[i].id # SYSCALL_HANDLERS[j].id
        /\ ~syscall_handlers.panicked

(* C39: the count WaitUntilEvent produces, on the immediate return and on  *)
(* the resume by an interrupt, never exceeds the length of the user array, *)
(* and the kernel writes no id outside array[0..len), whatever the array   *)
(* holds: repeated ids, or nothing.                                        *)

\* the addresses of the words of the array of the last call
WaitArrayWords == {last.pointer + size_of_u64 * (k - 1) : k \in 1..last.len}

\* the last step produced a count
CountProduced ==
    \/ last.op = "SyscallWaitUntilEvent" /\ last.outcome = "Return"
    \/ last.op = "ps2_interrupt" /\ last.outcome = "RestoreSyscall"

C39_CountWithinArray ==
    /\ CountProduced => last.output <= last.len
    /\ last.op \in {"SyscallWaitUntilEvent", "ps2_interrupt"} =>
          \A a \in DOMAIN user_mem \ WaitArrayWords : user_mem[a] = last.pre_mem[a]

\* an immediate return for an array that lists the keyboard stream twice
C39_Witness ==
    /\ last.op = "SyscallWaitUntilEvent" /\ last.outcome = "Return"
    /\ last.len = 2
    /\ ArrayAt(last.pre_mem, last.pointer, 2) = <<KEYBOARD_EVENT_ID, KEYBOARD_EVENT_ID>>
    /\ last.output = 1

(* C40: for every pair of inclusive u64 ranges, self.cut(cut_out) yields   *)
(* non-empty, ascending, pairwise disjoint ranges whose union is exactly   *)
(* the values of self that are not in cut_out, with no arithmetic          *)
(* underflow or overflow.                                                  *)

\* the values of a range
ValuesOf(range) == range.start..range.end

C40_CutIsSetDifference ==
    cut_result.done =>
        /\ ~cut_result.overflowed
        /\ \A i \in DOMAIN cut_result.result :
              cut_result.result[i].start <= cut_result.result[i].end
        /\ \A i \in DOMAIN cut_result.result : \A j \in DOMAIN cut_result.result :
              i < j => cut_result.result[i].end < cut_result.result[j].start
        /\ UNION {ValuesOf(cut_result.result[i]) : i \in DOMAIN cut_result.result} =
              ValuesOf(cut_result.self) \ ValuesOf(cut_result.cut_out)

====
